---- MODULE Spec2Model ----
(***************************************************************************)
(* Verification model of the LiDAR acquisition core of rsmdu               *)
(* (src/rsmdu/src/geometric/lidar.rs): the transfer layer with its disk    *)
(* cache, the flat and hierarchical loaders, the per-file orchestrator and *)
(* the two spatial indexes.                                                *)
(*                                                                         *)
(* Byte buffers are modelled by what the code reads of them: the content   *)
(* they were cut from and the set of its chunks that are present.  A       *)
(* transfer that stops early holds a prefix of the chunks; a cache file    *)
(* that is being written holds the chunks written so far.                  *)
(***************************************************************************)
EXTENDS Integers, Sequences, FiniteSets, TLC

\* ------------------------------------------------------------------------
\* Bounds of the model
\* ------------------------------------------------------------------------
NChunks == 2          \* chunks a file's bytes are transferred / written in
ChunkLen == 200       \* bytes of one chunk of an ordinary file
ShortChunkLen == 20   \* bytes of one chunk of a file shorter than a LAS header
FaultsSeq == 3        \* network faults the environment may inject (one worker)
FaultsPar == 1        \* network faults the environment may inject (two workers)
LoadsSeq == 2         \* successive loads of the URL by the single worker

\* ------------------------------------------------------------------------
\* Program constants
\* ------------------------------------------------------------------------
LAS_HEADER_MIN_BYTES == 111
SignatureLen == 4
MaxRetries == 3

Workers == {1, 2}
Chunks == 1..NChunks

MaxOf(S) == CHOOSE m \in S : \A x \in S : x <= m

\* ------------------------------------------------------------------------
\* Contents: the files that may sit behind the URL or in the cache
\* ------------------------------------------------------------------------
\*  good  : LASF, decodable, hierarchical index with every entry readable
\*  plain : LASF, decodable, no hierarchical index
\*  half  : LASF, decodable flat, exactly half of the entries unreadable
\*  bad   : LASF, decodable flat, more than half of the entries unreadable
\*  undec : LASF, but the decoder cannot open it
\*  short : LASF, but shorter than a LAS header
\*  html  : not LASF (an error page served with status 200)
Contents == {"good", "plain", "half", "bad", "undec", "short", "html"}

ContentMagicOK(c) == c # "html"
ChunkSize(c) == IF c = "short" THEN ShortChunkLen ELSE ChunkLen
Decodable(c) == c \in {"good", "plain", "half", "bad"}
HasCopcVlr(c) == c \in {"good", "half", "bad"}

Buf(c, has) == [c |-> c, has |-> has]
Prefix(c, k) == Buf(c, 1..k)
Full(c) == Prefix(c, NChunks)
ByteLen(b) == IF b.has = {} THEN 0 ELSE MaxOf(b.has) * ChunkSize(b.c)
Complete(b) == b.has = Chunks

\* `data.len() < 4 || &data[0..4] != b"LASF"`, negated
StartsWithLASF(b) ==
    /\ ByteLen(b) >= SignatureLen
    /\ 1 \in b.has
    /\ ContentMagicOK(b.c)

\* ------------------------------------------------------------------------
\* The decoder (las crate), as the loaders see it
\* ------------------------------------------------------------------------
Err == [ok |-> FALSE, pts |-> <<>>]
Ok(pts) == [ok |-> TRUE, pts |-> pts]

\* one point record per chunk, tagged with the content it belongs to
FlatPoints(b) == [i \in 1..Cardinality({k \in Chunks : 1..k \subseteq b.has}) |-> <<b.c, i>>]

\* las::Reader::new on a buffer; opens says whether the decoder accepts a
\* buffer that is cut short
ReaderOpens(b, opens) ==
    /\ StartsWithLASF(b)
    /\ Decodable(b.c)
    /\ (Complete(b) \/ opens)

\* las::CopcEntryReader::new on a buffer
CopcReaderOpens(b) ==
    /\ StartsWithLASF(b)
    /\ Decodable(b.c)
    /\ Complete(b)

\* the hierarchy entries of a content: point_count, readable, points
Entry(n, ok, pts) == [n |-> n, ok |-> ok, pts |-> pts]
Entries(c) ==
    CASE c = "good" -> << Entry(1, TRUE, << <<c, 1>> >>), Entry(0, TRUE, <<>>),
                          Entry(1, TRUE, << <<c, 2>> >>) >>
      [] c = "half" -> << Entry(1, TRUE, << <<c, 1>> >>), Entry(0, FALSE, <<>>),
                          Entry(1, FALSE, <<>>) >>
      [] c = "bad"  -> << Entry(1, FALSE, <<>>), Entry(1, TRUE, << <<c, 2>> >>),
                          Entry(1, FALSE, <<>>) >>
      [] OTHER -> << >>

RECURSIVE ReadCopcFrom(_, _, _)
ReadCopcFrom(entries, i, acc) ==
    IF i > Len(entries) THEN acc
    ELSE LET e == entries[i] IN
         IF e.n <= 0 THEN ReadCopcFrom(entries, i + 1, acc)
         ELSE IF e.ok
              THEN ReadCopcFrom(entries, i + 1,
                       [acc EXCEPT !.processed = @ + 1, !.success = @ + 1,
                                   !.points = @ \o e.pts])
              ELSE ReadCopcFrom(entries, i + 1,
                       [acc EXCEPT !.processed = @ + 1, !.failed = @ + 1])

read_copc_entries(entries) ==
    ReadCopcFrom(entries, 1, [points |-> <<>>, processed |-> 0, success |-> 0, failed |-> 0])

\* mutant of HighFailureRate: the threshold compared with >= instead of >
HighFailureRate_AtLeastHalf(r) == r.processed > 0 /\ 2 * r.failed >= r.processed

\* failure_rate > 0.5, with failure_rate = 0 when nothing was processed
HighFailureRate(r) == r.processed > 0 /\ 2 * r.failed > r.processed

read_as_standard_laz(b, opens) == IF ReaderOpens(b, opens) THEN Ok(FlatPoints(b)) ELSE Err

\* ------------------------------------------------------------------------
\* State
\* ------------------------------------------------------------------------
VARIABLES
    remote,      \* the content behind the URL
    urlKind,     \* "laz" or "copc": what is_copc_url says of the URL
    truncOpens,  \* whether the decoder opens a buffer that is cut short
    budget,      \* network faults the environment may still choose to inject
    maxLoads,    \* loads of the URL each worker performs
    initFile,    \* the cache file before the first load
    file,        \* the cache file of the URL: [exists, c, has]
    faults,      \* network faults injected so far
    wk,          \* per worker: position and locals of load_single_*_file
    rayon,       \* whether the build has the rayon feature
    ld,          \* Lidar::set_bbox and load_lidar_points_internal: position, locals, fields
    ix,          \* the spatial indexes: the point slice, the index built, the query
    flt,         \* filter_points_with_spatial_index: inputs, strategy, result
    rs,          \* process_lidar_points: inputs, position, grids
    cp,          \* cache_path_for_url: the URLs named so far and their cache files
    rg,          \* download_laz_via_range, byte by byte: the remote file, position, locals
    ce           \* read_copc_entries and the failure-rate decision: entries, position, counters

tvars == <<remote, urlKind, truncOpens, budget, maxLoads, initFile, file, faults, wk>>
vars == <<remote, urlKind, truncOpens, budget, maxLoads, initFile, file, faults, wk,
          rayon, ld, ix, flt, rs, cp, rg, ce>>

NoFile == [exists |-> FALSE, c |-> "none", has |-> {}]
FileOf(b) == [exists |-> TRUE, c |-> b.c, has |-> b.has]
FileBuf(f) == Buf(f.c, f.has)
NoBuf == Buf("none", {})
None == [some |-> FALSE, size |-> 0]
Some(n) == [some |-> TRUE, size |-> n]
NoHand == [any |-> FALSE, b |-> NoBuf]
Hand(b) == [any |-> TRUE, b |-> b]
NoPrev == [valid |-> FALSE, res |-> Err, via |-> "none", handed |-> NoHand,
           fileAfter |-> NoFile, fellBack |-> FALSE]

\* what the server answered on the range path: the status of the first
\* range request, the HEAD probe, the status of the later range requests
NoReplies == [first |-> "unasked", head |-> "unasked", data |-> "unasked"]

Worker0(p) ==
    [pc |-> p, retries |-> 0, expected |-> None, data |-> NoBuf, wpos |-> 0,
     ret |-> "none", result |-> Err, attempts |-> 0, netReqs |-> 0,
     accEnd |-> "none", handed |-> NoHand, wrote |-> NoHand, loads |-> 0,
     prev |-> NoPrev, via |-> "none", linked |-> FALSE, first |-> NoHand,
     fellBack |-> FALSE, dlFailed |-> FALSE, removed |-> FALSE,
     range |-> NoReplies, fetched |-> "none"]

\* no points loaded / the points a successful load stored
NoPoints == [some |-> FALSE, pts |-> <<>>]
SomePoints(pts) == [some |-> TRUE, pts |-> pts]

\* what run() returned: nothing yet / an error / the rasters' path, with the
\* points the rasters were built from, the bounding box they were built for
\* and the bounding box those points had been loaded for
NoRun == [done |-> FALSE, ok |-> FALSE, pts |-> <<>>, bbox |-> 0, loaded_for |-> 0]
RunErr == [done |-> TRUE, ok |-> FALSE, pts |-> <<>>, bbox |-> 0, loaded_for |-> 0]
RunOk(pts, bbox, loaded_for) ==
    [done |-> TRUE, ok |-> TRUE, pts |-> pts, bbox |-> bbox, loaded_for |-> loaded_for]

\* has_list: list_path_laz is Some; bbox: 0 for None, else the number of the
\* set_bbox call that stored it; points_bbox: the bbox loaded_points was
\* loaded for
Load0(p) ==
    [pc |-> p, list_path_laz |-> 0, loaded |-> {}, results |-> <<>>,
     all_points |-> <<>>, ret |-> Err, loaded_points |-> NoPoints,
     before |-> NoPoints, sb |-> "none", calls |-> 0,
     has_list |-> FALSE, bbox |-> 0, points_bbox |-> 0, run |-> NoRun]
LoadOff == Load0("off")

Index0(p) ==
    [pc |-> p, points |-> <<>>, cell_size |-> 1, q |-> <<0, 0, 0, 0>>,
     next |-> 0, grid |-> <<>>, tree |-> <<>>, out_grid |-> {}, out_quad |-> {},
     candidates |-> <<>>, full |-> FALSE]
IndexOff == Index0("off")

\* the parts of the program a specification does not exercise stay put
FilterOff == [pc |-> "off"]
RasterOff == [pc |-> "off"]
PathOff == [pc |-> "off"]
RangeOff == [pc |-> "off"]
EntriesOff == [pc |-> "off"]
OthersOff ==
    /\ flt = FilterOff /\ rs = RasterOff /\ cp = PathOff
    /\ rg = RangeOff /\ ce = EntriesOff

\* the file states a cache directory may be found in before the run
InitFiles ==
    {NoFile} \cup {FileOf(Full(c)) : c \in Contents}
             \cup {FileOf(Prefix("good", k)) : k \in 0..(NChunks - 1)}

\* ------------------------------------------------------------------------
\* verify_cached_file
\* ------------------------------------------------------------------------
\* mutants of verify_cached_file: the signature comparison inverted; the
\* minimum-size check left out
verify_cached_file_Inverted(f) ==
    IF ~f.exists THEN "err"
    ELSE IF ByteLen(FileBuf(f)) < LAS_HEADER_MIN_BYTES THEN "false"
    ELSE IF StartsWithLASF(FileBuf(f)) THEN "false" ELSE "true"

verify_cached_file_NoSizeCheck(f) ==
    IF ~f.exists THEN "err"
    ELSE IF StartsWithLASF(FileBuf(f)) THEN "true" ELSE "false"

verify_cached_file(f) ==
    IF ~f.exists THEN "err"
    ELSE IF ByteLen(FileBuf(f)) < LAS_HEADER_MIN_BYTES THEN "false"
    ELSE IF StartsWithLASF(FileBuf(f)) THEN "true" ELSE "false"

\* the check download_with_verification makes before caching
DownloadedSignatureOK(b) == StartsWithLASF(b)

\* the check load_single_laz_file makes on the bytes of the range transfer
RangeSignatureOK(b) == StartsWithLASF(b)

\* parse_las_header_from_slice on the first range of the remote file
parse_las_header_ok(c) ==
    /\ ByteLen(Full(c)) >= LAS_HEADER_MIN_BYTES
    /\ StartsWithLASF(Full(c))

\* the statuses a range request may be answered with: 206 Partial Content,
\* 200 OK (the Range header was ignored), or an error status
Statuses == {"206", "200", "404"}
RangeReplies == [first : Statuses, head : {"ok", "fail"}, data : Statuses]

\* download_partial_laz up to its body: Err on 200 and on every other status
\* that is not 206
download_partial_laz_Accepts200(status) == status \in {"200", "206"}
download_partial_laz(status) == status # "200" /\ status = "206"

\* download_laz_via_range: the header range, parse_las_header_from_slice,
\* head_content_length, the point-data range; `asked` is what was requested
download_laz_via_range(c, r) ==
    IF ~download_partial_laz(r.first)
    THEN [err |-> "status", asked |-> [NoReplies EXCEPT !.first = r.first]]
    ELSE IF ~parse_las_header_ok(c)
    THEN [err |-> "parse", asked |-> [NoReplies EXCEPT !.first = r.first]]
    ELSE IF r.head = "fail"
    THEN [err |-> "head", asked |-> [r EXCEPT !.data = "unasked"]]
    ELSE IF ~download_partial_laz(r.data)
    THEN [err |-> "status", asked |-> r]
    ELSE [err |-> "none", asked |-> r]

\* ------------------------------------------------------------------------
\* One iteration of the retry loop of download_with_verification
\* ------------------------------------------------------------------------
\* o: what the network does on this GET
\*   [kind |-> "conn"]                     send() fails
\*   [kind |-> "http"]                     a status that is not a success
\*   [kind |-> "body", k, end]             k chunks are read, then end-of-stream
\*                                         ("eof") or a read error ("err")
GetOutcomes ==
    {[kind |-> "conn", k |-> 0, end |-> "none"], [kind |-> "http", k |-> 0, end |-> "none"]}
    \cup {[kind |-> "body", k |-> k, end |-> e] : k \in 0..NChunks, e \in {"eof", "err"}}

Clean(o) == o.kind = "body" /\ o.k = NChunks /\ o.end = "eof"

Step(n, r) == [next |-> n, retries |-> r]

\* mutant of DownloadAttempt: an empty response is retried without
\* consuming retry budget
DownloadAttempt_EmptyIsFree(c, r, exp, o) ==
    IF o.kind = "conn"
    THEN IF r - 1 > 0 THEN Step("retry", r - 1) ELSE Step("fail", r - 1)
    ELSE IF o.kind = "http" THEN Step("fail", r)
    ELSE LET r1 == IF o.end = "err" THEN r - 1 ELSE r
             n  == ByteLen(Prefix(c, o.k))
         IN  IF o.end = "err" /\ ~(r1 > 0) THEN Step("fail", r1)
             ELSE IF n > 0
                  THEN IF exp.some /\ n # exp.size
                       THEN IF r1 - 1 > 0 THEN Step("retry", r1 - 1)
                                          ELSE Step("fail", r1 - 1)
                       ELSE Step("accept", r1)
                  ELSE Step("retry", r1)

DownloadAttempt(c, r, exp, o) ==
    IF o.kind = "conn"
    THEN IF r - 1 > 0 THEN Step("retry", r - 1) ELSE Step("fail", r - 1)
    ELSE IF o.kind = "http" THEN Step("fail", r)
    ELSE LET r1 == IF o.end = "err" THEN r - 1 ELSE r
             n  == ByteLen(Prefix(c, o.k))
         IN  IF o.end = "err" /\ ~(r1 > 0) THEN Step("fail", r1)
             ELSE IF n > 0
                  THEN IF exp.some /\ n # exp.size
                       THEN IF r1 - 1 > 0 THEN Step("retry", r1 - 1)
                                          ELSE Step("fail", r1 - 1)
                       ELSE Step("accept", r1)
                  ELSE IF r1 - 1 = 0 THEN Step("fail", r1 - 1)
                                     ELSE Step("retry", r1 - 1)

\* ------------------------------------------------------------------------
\* Helpers on the worker table
\* ------------------------------------------------------------------------
Set(w, rec) == wk' = [wk EXCEPT ![w] = rec]

\* remove_file: every open handle now points to an unlinked file
SetAndUnlink(w, rec) ==
    wk' = [v \in Workers |-> IF v = w THEN [rec EXCEPT !.linked = FALSE]
                                       ELSE [wk[v] EXCEPT !.linked = FALSE]]

Return(rec, res) == [rec EXCEPT !.pc = "done", !.result = res]

\* enter download_with_verification; `to` is where the caller goes on with the bytes
CallDownload(rec, to) == [rec EXCEPT !.pc = "dl_head", !.ret = to, !.via = "download"]

Env == UNCHANGED <<remote, urlKind, truncOpens, budget, maxLoads, initFile, rayon, ld, ix, flt, rs, cp, rg, ce>>

\* ------------------------------------------------------------------------
\* load_single_point_file: dispatch on the URL
\* ------------------------------------------------------------------------
Begin(w) ==
    /\ wk[w].pc = "start"
    /\ Set(w, [wk[w] EXCEPT !.pc = IF urlKind = "copc" THEN "copc_exists" ELSE "laz_exists1"])
    /\ UNCHANGED <<file, faults>> /\ Env

\* ------------------------------------------------------------------------
\* load_single_laz_file
\* ------------------------------------------------------------------------
\* `if cache_path.exists()` (first)
LazExists1(w) ==
    /\ wk[w].pc = "laz_exists1"
    /\ Set(w, [wk[w] EXCEPT !.pc = IF file.exists THEN "laz_verify" ELSE "laz_range"])
    /\ UNCHANGED <<file, faults>> /\ Env

\* verify_cached_file, and remove_file when it does not say Ok(true)
LazVerify(w) ==
    /\ wk[w].pc = "laz_verify"
    /\ IF verify_cached_file(file) = "true"
       THEN /\ Set(w, [wk[w] EXCEPT !.pc = "laz_exists2"])
            /\ UNCHANGED file
       ELSE /\ SetAndUnlink(w, [wk[w] EXCEPT !.pc = "laz_exists2", !.removed = TRUE])
            /\ file' = NoFile
    /\ UNCHANGED faults /\ Env

\* `if cache_path.exists()` (second)
LazExists2(w) ==
    /\ wk[w].pc = "laz_exists2"
    /\ Set(w, IF file.exists THEN [wk[w] EXCEPT !.pc = "laz_open"]
                             ELSE CallDownload(wk[w], "laz_decode"))
    /\ UNCHANGED <<file, faults>> /\ Env

\* las::Reader::from_path(&cache_path): the file is opened and read
LazOpen(w) ==
    /\ wk[w].pc = "laz_open"
    /\ Set(w, IF file.exists
              THEN [wk[w] EXCEPT !.pc = "laz_decode", !.data = FileBuf(file), !.via = "cache"]
              ELSE Return(wk[w], Err))
    /\ UNCHANGED <<file, faults>> /\ Env

\* download_laz_via_range, then the signature check and the start of the
\* cache write; Err of the range path falls back to download_with_verification
LazRange(w) ==
    /\ wk[w].pc = "laz_range"
    /\ \E r \in RangeReplies, k \in 1..NChunks :
          LET res == download_laz_via_range(remote, r)
              fault == parse_las_header_ok(remote) /\ (res.err # "none" \/ k < NChunks)
              rec == [wk[w] EXCEPT !.netReqs = @ + 1, !.range = res.asked]
              b == Prefix(remote, k)
              got == [rec EXCEPT !.data = b, !.via = "download", !.fetched = "range"]
          IN  /\ fault => faults < budget
              /\ faults' = IF fault THEN faults + 1 ELSE faults
              /\ Set(w, IF res.err # "none" THEN CallDownload(rec, "laz_decode")
                        ELSE IF RangeSignatureOK(b)
                        THEN [got EXCEPT !.pc = "wr_create", !.ret = "laz_decode"]
                        ELSE Return(got, Err))
    /\ UNCHANGED file /\ Env

\* las::Reader::new on the bytes, and map_reader_err when it fails
LazDecode(w) ==
    /\ wk[w].pc = "laz_decode"
    /\ LET rec == [wk[w] EXCEPT !.handed = Hand(wk[w].data)] IN
       IF ReaderOpens(wk[w].data, truncOpens)
       THEN /\ Set(w, Return(rec, Ok(FlatPoints(wk[w].data))))
            /\ UNCHANGED file
       ELSE IF file.exists
            THEN /\ SetAndUnlink(w, Return([rec EXCEPT !.removed = TRUE], Err))
                 /\ file' = NoFile
            ELSE /\ Set(w, Return(rec, Err))
                 /\ UNCHANGED file
    /\ UNCHANGED faults /\ Env

\* ------------------------------------------------------------------------
\* download_with_verification
\* ------------------------------------------------------------------------
\* head_content_length, `let mut retries = 3`
DlHead(w) ==
    /\ wk[w].pc = "dl_head"
    /\ \E ok \in BOOLEAN :
         /\ ~ok => faults < budget
         /\ faults' = IF ok THEN faults ELSE faults + 1
         /\ Set(w, [wk[w] EXCEPT !.pc = "dl_get",
                                 !.expected = IF ok THEN Some(ByteLen(Full(remote))) ELSE None,
                                 !.retries = MaxRetries, !.attempts = 0,
                                 !.netReqs = @ + 1, !.data = NoBuf, !.accEnd = "none"])
    /\ UNCHANGED file /\ Env

\* one iteration of `let data = loop { ... }`
DlGet(w) ==
    /\ wk[w].pc = "dl_get"
    /\ \E o \in GetOutcomes :
         /\ ~Clean(o) => faults < budget
         /\ faults' = IF Clean(o) THEN faults ELSE faults + 1
         /\ LET st  == DownloadAttempt(remote, wk[w].retries, wk[w].expected, o)
                rec == [wk[w] EXCEPT !.retries = st.retries, !.attempts = @ + 1,
                                     !.netReqs = @ + 1]
            IN  Set(w, CASE st.next = "retry"  -> rec
                         [] st.next = "fail"   -> Return([rec EXCEPT !.dlFailed = TRUE], Err)
                         [] st.next = "accept" -> [rec EXCEPT !.pc = "dl_verify",
                                                              !.data = Prefix(remote, o.k),
                                                              !.accEnd = o.end,
                                                              !.fetched = "get"])
    /\ UNCHANGED file /\ Env

\* "Verify LAS signature before caching"
DlVerify(w) ==
    /\ wk[w].pc = "dl_verify"
    /\ Set(w, IF DownloadedSignatureOK(wk[w].data)
              THEN [wk[w] EXCEPT !.pc = "wr_create"]
              ELSE Return([wk[w] EXCEPT !.dlFailed = TRUE], Err))
    /\ UNCHANGED <<file, faults>> /\ Env

\* std::fs::write, first half: File::create creates or truncates the file
WrCreate(w) ==
    /\ wk[w].pc = "wr_create"
    /\ file' = FileOf(Buf(wk[w].data.c, {}))
    /\ Set(w, [wk[w] EXCEPT !.pc = "wr_write", !.wpos = 0, !.linked = TRUE,
                            !.wrote = Hand(wk[w].data)])
    /\ UNCHANGED faults /\ Env

\* std::fs::write, second half: write_all, one chunk at a time; then the
\* bytes go back to the caller
WrWrite(w) ==
    /\ wk[w].pc = "wr_write"
    /\ LET k == wk[w].wpos + 1
           last == k >= MaxOf(wk[w].data.has)
       IN  /\ file' = IF wk[w].linked
                      THEN [file EXCEPT !.c = wk[w].data.c, !.has = @ \cup {k}]
                      ELSE file
           /\ Set(w, [wk[w] EXCEPT !.wpos = k, !.pc = IF last THEN wk[w].ret ELSE @])
    /\ UNCHANGED faults /\ Env

\* ------------------------------------------------------------------------
\* load_single_copc_file
\* ------------------------------------------------------------------------
\* `if cache_path.exists()`
CopcExists(w) ==
    /\ wk[w].pc = "copc_exists"
    /\ Set(w, IF file.exists THEN [wk[w] EXCEPT !.pc = "copc_verify"]
                             ELSE CallDownload(wk[w], "copc_decode"))
    /\ UNCHANGED <<file, faults>> /\ Env

\* verify_cached_file; Ok(false) | Err(_) removes the file and downloads
CopcVerify(w) ==
    /\ wk[w].pc = "copc_verify"
    /\ IF verify_cached_file(file) = "true"
       THEN /\ Set(w, [wk[w] EXCEPT !.pc = "copc_read"])
            /\ UNCHANGED file
       ELSE /\ SetAndUnlink(w, CallDownload([wk[w] EXCEPT !.removed = TRUE], "copc_decode"))
            /\ file' = NoFile
    /\ UNCHANGED faults /\ Env

\* std::fs::read(&cache_path)
CopcRead(w) ==
    /\ wk[w].pc = "copc_read"
    /\ Set(w, IF file.exists
              THEN [wk[w] EXCEPT !.pc = "copc_decode", !.data = FileBuf(file), !.via = "cache"]
              ELSE Return(wk[w], Err))
    /\ UNCHANGED <<file, faults>> /\ Env

\* CopcEntryReader::new, read_copc_entries and the failure-rate decision
CopcDecode(w) ==
    /\ wk[w].pc = "copc_decode"
    /\ LET b   == wk[w].data
           rec == [wk[w] EXCEPT !.handed = Hand(b), !.first = Hand(b)]
           r   == read_copc_entries(Entries(b.c))
       IN  Set(w, IF ~CopcReaderOpens(b) \/ ~HasCopcVlr(b.c)
                  THEN Return(rec, read_as_standard_laz(b, truncOpens))
                  ELSE IF HighFailureRate(r)
                       THEN [rec EXCEPT !.pc = "copc_fallback", !.fellBack = TRUE]
                       ELSE Return(rec, Ok(r.points)))
    /\ UNCHANGED <<file, faults>> /\ Env

\* "Delete potentially corrupted cache", "Re-download and try as standard LAZ"
CopcFallback(w) ==
    /\ wk[w].pc = "copc_fallback"
    /\ IF file.exists
       THEN /\ SetAndUnlink(w, CallDownload([wk[w] EXCEPT !.removed = TRUE], "copc_flat"))
            /\ file' = NoFile
       ELSE /\ Set(w, CallDownload(wk[w], "copc_flat"))
            /\ UNCHANGED file
    /\ UNCHANGED faults /\ Env

\* read_as_standard_laz(fresh_bytes, filter_bbox)
CopcFlat(w) ==
    /\ wk[w].pc = "copc_flat"
    /\ Set(w, Return([wk[w] EXCEPT !.handed = Hand(wk[w].data)],
                     read_as_standard_laz(wk[w].data, truncOpens)))
    /\ UNCHANGED <<file, faults>> /\ Env

\* the worker is given the same URL again
NextLoad(w) ==
    /\ wk[w].pc = "done"
    /\ wk[w].loads + 1 < maxLoads
    /\ Set(w, [Worker0("start") EXCEPT
                 !.loads = wk[w].loads + 1,
                 !.linked = wk[w].linked,
                 !.prev = [valid |-> TRUE, res |-> wk[w].result, via |-> wk[w].via,
                           handed |-> wk[w].handed, fileAfter |-> file,
                           fellBack |-> wk[w].fellBack]])
    /\ UNCHANGED <<file, faults>> /\ Env

LoadStep(w) ==
    \/ Begin(w)
    \/ LazExists1(w) \/ LazVerify(w) \/ LazExists2(w) \/ LazOpen(w) \/ LazRange(w)
    \/ LazDecode(w)
    \/ DlHead(w) \/ DlGet(w) \/ DlVerify(w) \/ WrCreate(w) \/ WrWrite(w)
    \/ CopcExists(w) \/ CopcVerify(w) \/ CopcRead(w) \/ CopcDecode(w)
    \/ CopcFallback(w) \/ CopcFlat(w)

TransferInit(nw, b, ml) ==
    /\ remote \in Contents
    /\ urlKind \in {"laz", "copc"}
    /\ truncOpens \in BOOLEAN
    /\ budget = b
    /\ maxLoads = ml
    /\ initFile \in InitFiles
    /\ file = initFile
    /\ faults = 0
    /\ wk = [w \in Workers |-> IF w <= nw THEN Worker0("start") ELSE Worker0("off")]
    /\ rayon = FALSE
    /\ ld = LoadOff
    /\ ix = IndexOff
    /\ OthersOff

\* one worker, the URL loaded LoadsSeq times in a row
InitSeq == TransferInit(1, FaultsSeq, LoadsSeq)
NextSeq == \E w \in Workers : LoadStep(w) \/ NextLoad(w)
SpecSeq == InitSeq /\ [][NextSeq]_vars

\* the same, where a worker that can take a step eventually takes one: every
\* request, read and sleep of the loader returns
SpecSeqFair == SpecSeq /\ WF_vars(NextSeq)

\* two workers, each loading the URL once
InitPar == TransferInit(2, FaultsPar, 1)
NextPar == \E w \in Workers : LoadStep(w)
SpecPar == InitPar /\ [][NextPar]_vars

\* ------------------------------------------------------------------------
\* Claims on the transfer layer and the loaders
\* ------------------------------------------------------------------------
Active == {w \in Workers : wk[w].pc # "off"}
AllDone == \A w \in Active : wk[w].pc = "done"

\* C2: one URL requested by two workers with an empty cache and a well-behaved
\* server: when both are done, both loads have succeeded and the cache holds
\* one file with the complete remote content.
C2_BothSucceedOneCompleteFile ==
    (initFile = NoFile /\ Decodable(remote) /\ faults = 0 /\ AllDone)
        => /\ \A w \in Active : wk[w].result.ok
           /\ file.exists
           /\ FileBuf(file) = Full(remote)

\* C3: every buffer handed to the decoder, and every buffer written to the
\* cache, starts with the signature LASF.
C3_OnlyLASFDecodedOrCached ==
    \A w \in Workers :
        /\ wk[w].handed.any => StartsWithLASF(wk[w].handed.b)
        /\ wk[w].wrote.any => StartsWithLASF(wk[w].wrote.b)

RetryBudgetConsumed ==
    \A w \in Workers :
        /\ wk[w].attempts <= MaxRetries
        /\ wk[w].pc = "dl_get" =>
              /\ wk[w].retries >= 1
              /\ wk[w].attempts + wk[w].retries <= MaxRetries

InRetryLoop(w) == wk[w].pc \in {"dl_head", "dl_get"}

\* C5: a call of download_with_verification makes at most 3 GET attempts;
\* at the head of the loop there is budget left, and attempts made plus
\* budget left never exceed 3, so an iteration that goes round again has
\* consumed budget; and every call leaves the retry loop.
C5_AtMostThreeAttempts ==
    /\ []RetryBudgetConsumed
    /\ \A w \in Workers : InRetryLoop(w) ~> ~InRetryLoop(w)

C5_Witness ==
    \E w \in Workers : wk[w].attempts = MaxRetries /\ wk[w].dlFailed /\ wk[w].pc = "done"

\* C6: the bytes download_with_verification goes on to cache and return are
\* those of an attempt whose body was read to end-of-stream, never those of
\* an attempt that hit a read error.
C6_OnlyCleanBodyAccepted ==
    \A w \in Workers : wk[w].pc \in {"dl_verify", "wr_create"} => wk[w].accEnd # "err"

\* C4 (as claimed): after the fallback the file's result is the flat decode
\* of the buffer the hierarchical decode was tried on, and the file does
\* not fail.
C4_FallbackDecodesSameBuffer ==
    \A w \in Workers :
        (wk[w].fellBack /\ wk[w].pc = "done")
            => /\ wk[w].result = read_as_standard_laz(wk[w].first.b, truncOpens)
               /\ wk[w].result.ok

AttemptedEntries(c) == {i \in 1..Len(Entries(c)) : Entries(c)[i].n > 0}
FailedEntries(c) == {i \in AttemptedEntries(c) : ~Entries(c)[i].ok}
MoreThanHalfFail(c) == 2 * Cardinality(FailedEntries(c)) > Cardinality(AttemptedEntries(c))

\* C4 (amended): the hierarchical decode is abandoned exactly when more than
\* half of the attempted entries fail; the file is then downloaded again,
\* and its result is the flat decode of the newly downloaded and cached
\* bytes, or an error when that download fails.
C4_FallbackRedownloadsThenFlat ==
    \A w \in Workers :
        wk[w].first.any =>
            /\ wk[w].fellBack <=> /\ CopcReaderOpens(wk[w].first.b)
                                  /\ HasCopcVlr(wk[w].first.b.c)
                                  /\ MoreThanHalfFail(wk[w].first.b.c)
            /\ (wk[w].fellBack /\ wk[w].pc = "done") =>
                  IF wk[w].dlFailed
                  THEN wk[w].result = Err
                  ELSE /\ wk[w].via = "download"
                       /\ wk[w].netReqs >= 2
                       /\ wk[w].handed = wk[w].wrote
                       /\ wk[w].result = read_as_standard_laz(wk[w].handed.b, truncOpens)

C4_Witness ==
    \E w \in Workers :
        /\ wk[w].fellBack /\ wk[w].pc = "done" /\ ~wk[w].dlFailed
        /\ wk[w].result = Ok(FlatPoints(Full(remote)))
        /\ wk[w].result.pts # read_copc_entries(Entries(wk[w].first.b.c)).points

DecodeStates == {"laz_decode", "copc_decode", "copc_flat"}

CacheHoldsDecodedBytes(w) ==
    /\ (wk[w].pc \in DecodeStates /\ wk[w].via = "download")
          => /\ file.exists
             /\ FileBuf(file) = wk[w].data
             /\ wk[w].wrote = Hand(wk[w].data)
    /\ (wk[w].pc = "done" /\ wk[w].result.ok /\ wk[w].via = "download")
          => /\ file.exists
             /\ FileBuf(file) = wk[w].handed.b

ServedFromCache(w) ==
    /\ wk[w].netReqs = 0
    /\ wk[w].pc = "done" => /\ wk[w].via = "cache"
                            /\ wk[w].handed = wk[w].prev.handed

PrevDownloaded(w) == wk[w].prev.valid /\ wk[w].prev.res.ok /\ wk[w].prev.via = "download"

\* C7 (as claimed): after a load that succeeded by downloading, the cache
\* holds the bytes that were decoded, written before they were decoded, and
\* the next load makes no network request and decodes the same bytes.
C7_NextLoadFromCache ==
    \A w \in Workers :
        /\ CacheHoldsDecodedBytes(w)
        /\ PrevDownloaded(w) => ServedFromCache(w)

\* the cached bytes are a hierarchical file, loaded through the COPC loader,
\* of which more than half of the attempted entries fail
FallsBackAgain(b) ==
    /\ urlKind = "copc"
    /\ CopcReaderOpens(b)
    /\ HasCopcVlr(b.c)
    /\ MoreThanHalfFail(b.c)

\* C7 (amended): the same, except that a hierarchical file of which more
\* than half of the entries fail is removed and downloaded again by the
\* next load too.
C7_NextLoadFromCacheUnlessFallback ==
    \A w \in Workers :
        /\ CacheHoldsDecodedBytes(w)
        /\ (PrevDownloaded(w) /\ ~FallsBackAgain(wk[w].prev.handed.b)) => ServedFromCache(w)

C7_Witness ==
    \E w \in Workers :
        /\ PrevDownloaded(w) /\ ~FallsBackAgain(wk[w].prev.handed.b)
        /\ wk[w].pc = "done" /\ wk[w].via = "cache" /\ wk[w].netReqs = 0
        /\ wk[w].handed = wk[w].prev.handed /\ wk[w].result.ok

InvalidEntry(f) ==
    /\ f.exists
    /\ \/ ByteLen(FileBuf(f)) < LAS_HEADER_MIN_BYTES
       \/ ~StartsWithLASF(FileBuf(f))

BeforeVerify == {"start", "laz_exists1", "laz_verify", "copc_exists", "copc_verify"}

RemovedAndRefetched(w) ==
    /\ wk[w].via # "cache"
    /\ wk[w].pc \notin BeforeVerify => wk[w].removed
    /\ wk[w].pc = "done" => wk[w].netReqs > 0

\* C8 (as claimed): an invalid cache entry is removed and the file fetched
\* again within the same load, by either loader, and the load fails only
\* if that fetch fails (it returns an error, or the network faulted in it).
C8_InvalidEntryRefetched ==
    \A w \in Active :
        (wk[w].loads = 0 /\ InvalidEntry(initFile))
            => /\ RemovedAndRefetched(w)
               /\ (wk[w].pc = "done" /\ ~wk[w].result.ok) => (wk[w].dlFailed \/ faults > 0)

\* C8 (amended): ... and the load fails only if that fetch fails or the
\* decoder cannot open the fetched bytes.
C8_InvalidEntryRefetchedOrUndecodable ==
    \A w \in Active :
        (wk[w].loads = 0 /\ InvalidEntry(initFile))
            => /\ RemovedAndRefetched(w)
               /\ (wk[w].pc = "done" /\ ~wk[w].result.ok)
                     => \/ wk[w].dlFailed
                        \/ /\ wk[w].handed.any
                           /\ wk[w].via = "download"
                           /\ ~ReaderOpens(wk[w].handed.b, truncOpens)

C8_Witness ==
    \E w \in Active :
        /\ wk[w].loads = 0 /\ InvalidEntry(initFile)
        /\ wk[w].pc = "done" /\ wk[w].result.ok /\ wk[w].removed
        /\ file.exists /\ FileBuf(file) = Full(remote)

\* ------------------------------------------------------------------------
\* The per-file orchestrator: Lidar::set_bbox and load_lidar_points_internal
\* ------------------------------------------------------------------------
NFiles == 2            \* URLs the tile service may list for a bounding box
MaxPointsPerFile == 1  \* points one file may yield
CallsLoad == 2         \* successive set_bbox calls on the same Lidar

\* what load_single_point_file may return for the i-th URL
FilePoints(i, n) == [k \in 1..n |-> <<i, k>>]
FileOutcomes(i) == {Err} \cup {Ok(FilePoints(i, n)) : n \in 0..MaxPointsPerFile}

\* vecs.into_iter().flatten(): the points of files 1..n in list order
RECURSIVE Flatten(_, _)
Flatten(results, n) ==
    IF n = 0 THEN <<>> ELSE Flatten(results, n - 1) \o results[n].pts

BailIfEmpty_ReturnsEmpty(all_points) == Ok(all_points)

\* if all_points.is_empty() { bail!(..) } .. Ok(all_points)
BailIfEmpty(all_points) ==
    IF all_points = <<>> THEN Err ELSE Ok(all_points)

\* results.into_iter().collect::<Result<Vec<_>, _>>()? and what follows it
CollectResults(results, n) ==
    IF \E i \in 1..n : ~results[i].ok THEN Err
    ELSE BailIfEmpty(Flatten(results, n))

LdEnv == UNCHANGED <<tvars, rayon, ix, flt, rs, cp, rg, ce>>

\* set_bbox up to the load: the bbox is stored, get_lidar_points asks the
\* tile service and stores the URL list; an empty list skips the load
SetBboxGetUrls ==
    /\ ld.pc = "idle"
    /\ \E wfsOk \in BOOLEAN, n \in 0..NFiles :
          LET rec == [ld EXCEPT !.before = ld.loaded_points, !.loaded = {},
                                !.all_points = <<>>, !.ret = Err,
                                !.results = [i \in 1..n |-> Err],
                                !.bbox = ld.calls + 1, !.run = NoRun]
          IN  IF ~wfsOk
              THEN /\ n = 0
                   /\ ld' = [rec EXCEPT !.pc = "returned", !.sb = "err"]
              ELSE IF n = 0
                   THEN ld' = [rec EXCEPT !.list_path_laz = 0, !.pc = "returned",
                                          !.sb = "ok", !.has_list = TRUE]
                   ELSE ld' = [rec EXCEPT !.list_path_laz = n, !.pc = "load",
                                          !.has_list = TRUE]
    /\ LdEnv

\* load_lidar_points_internal: create the cache directory
LoadCreateDir ==
    /\ ld.pc = "load"
    /\ \E dirOk \in BOOLEAN :
          ld' = IF dirOk THEN [ld EXCEPT !.pc = "files"]
                         ELSE [ld EXCEPT !.pc = "loaded", !.ret = Err]
    /\ LdEnv

\* rayon: par_iter().map(load_single_point_file), one file in any order
ParLoadFile(i) ==
    /\ rayon /\ ld.pc = "files"
    /\ i \in (1..ld.list_path_laz) \ ld.loaded
    /\ \E o \in FileOutcomes(i) :
          ld' = [ld EXCEPT !.results[i] = o, !.loaded = @ \cup {i}]
    /\ LdEnv

\* rayon: all files are back; collect, flatten, return
ParCollect ==
    /\ rayon /\ ld.pc = "files"
    /\ ld.loaded = 1..ld.list_path_laz
    /\ ld' = [ld EXCEPT !.pc = "loaded",
                        !.ret = CollectResults(ld.results, ld.list_path_laz)]
    /\ LdEnv

\* sequential: one turn of the for loop
SeqLoadFile ==
    /\ ~rayon /\ ld.pc = "files"
    /\ Cardinality(ld.loaded) < ld.list_path_laz
    /\ LET i == Cardinality(ld.loaded) + 1
       IN  \E o \in FileOutcomes(i) :
              ld' = [ld EXCEPT !.results[i] = o, !.loaded = @ \cup {i},
                               !.all_points = IF o.ok THEN @ \o o.pts ELSE @]
    /\ LdEnv

\* sequential: after the loop
SeqFinish ==
    /\ ~rayon /\ ld.pc = "files"
    /\ ld.loaded = 1..ld.list_path_laz
    /\ ld' = [ld EXCEPT !.pc = "loaded", !.ret = BailIfEmpty(ld.all_points)]
    /\ LdEnv

\* set_bbox after the load: `?` on the result, then loaded_points = Some(points)
SetBboxReturn ==
    /\ ld.pc = "loaded"
    /\ ld' = IF ld.ret.ok
             THEN [ld EXCEPT !.pc = "returned", !.sb = "ok",
                             !.loaded_points = SomePoints(ld.ret.pts),
                             !.points_bbox = ld.bbox]
             ELSE [ld EXCEPT !.pc = "returned", !.sb = "err"]
    /\ LdEnv

\* the caller sets another bounding box
NextCall ==
    /\ ld.pc = "returned"
    /\ ld.calls + 1 < CallsLoad
    /\ ld' = [ld EXCEPT !.pc = "idle", !.sb = "none", !.calls = @ + 1]
    /\ LdEnv

run_NoFilesAccepted(self, restOk) ==
    IF ~self.has_list \/ self.bbox = 0 \/ ~restOk \/ ~self.loaded_points.some
    THEN RunErr
    ELSE RunOk(self.loaded_points.pts, self.bbox, self.points_bbox)

\* Lidar::run: the URL list must be there and not empty, the bounding box
\* set, the points loaded; restOk stands for the steps that may fail after
\* these checks (the coordinate transformer, the GeoTIFF writer)
run(self, restOk) ==
    IF ~self.has_list THEN RunErr
    ELSE IF self.list_path_laz = 0 THEN RunErr
    ELSE IF self.bbox = 0 THEN RunErr
    ELSE IF ~self.loaded_points.some THEN RunErr
    ELSE IF ~restOk THEN RunErr
    ELSE RunOk(self.loaded_points.pts, self.bbox, self.points_bbox)

\* the caller calls run() on the Lidar, before or after a set_bbox
Run ==
    /\ ld.pc \in {"idle", "returned"}
    /\ ~ld.run.done
    /\ \E restOk \in BOOLEAN : ld' = [ld EXCEPT !.run = run(ld, restOk)]
    /\ LdEnv

InitLoad ==
    /\ rayon \in BOOLEAN
    /\ ld = Load0("idle")
    /\ ix = IndexOff
    /\ OthersOff
    /\ remote = "good" /\ urlKind = "laz" /\ truncOpens = FALSE
    /\ budget = 0 /\ maxLoads = 0 /\ initFile = NoFile /\ file = NoFile
    /\ faults = 0
    /\ wk = [w \in Workers |-> Worker0("off")]

NextLoadAll ==
    \/ SetBboxGetUrls
    \/ LoadCreateDir
    \/ \E i \in 1..NFiles : ParLoadFile(i)
    \/ ParCollect
    \/ SeqLoadFile
    \/ SeqFinish
    \/ SetBboxReturn
    \/ NextCall
    \/ Run

SpecLoad == InitLoad /\ [][NextLoadAll]_vars

\* the load ran in this call and every URL of its (non-empty) list was loaded
AllLoaded ==
    /\ ld.pc \in {"loaded", "returned"}
    /\ ld.loaded # {}
    /\ ld.loaded = 1..ld.list_path_laz
SomeFileFails == \E i \in ld.loaded : ~ld.results[i].ok
SomeFileYields == \E i \in ld.loaded : ld.results[i].ok /\ ld.results[i].pts # <<>>

\* C1: with two or more URLs, when one file returns an error and another
\* yields points, the load succeeds with the points of the files that
\* succeeded, on the rayon path and on the sequential path.
C1_FailingFileSkipped ==
    (AllLoaded /\ ld.list_path_laz >= 2 /\ SomeFileFails /\ SomeFileYields)
        => ld.ret = Ok(Flatten(ld.results, ld.list_path_laz))

\* every file of the call failed or yielded zero points
NoFileYields == AllLoaded /\ ~SomeFileYields

\* C9: if every file of a load fails or yields zero points, the load returns
\* an error, set_bbox returns that error, and loaded_points is left as it
\* was before the call: nothing of this load reaches the caller.
C9_AllFailIsError ==
    NoFileYields
        => /\ ld.ret = Err
           /\ ld.pc = "returned" => (ld.sb = "err" /\ ld.loaded_points = ld.before)

C9_Witness ==
    /\ ld.pc = "returned" /\ NoFileYields
    /\ ld.list_path_laz >= 2
    /\ \E i \in ld.loaded : ~ld.results[i].ok
    /\ \E i \in ld.loaded : ld.results[i] = Ok(<<>>)
    /\ ld.sb = "err"
    /\ ld.before.some

\* ------------------------------------------------------------------------
\* The spatial indexes: SpatialGridIndex and QuadtreeSpatialIndex
\* ------------------------------------------------------------------------
MaxPoints == 3          \* points in the slice an index is built over
CellSizeMax == 3        \* cell sizes tried, in half coordinate units
MaxDepth == 2           \* OctreeNode::MAX_DEPTH (12), scaled down
MaxPointsPerNode == 1   \* OctreeNode::MAX_POINTS_PER_NODE (1000), scaled down

\* Coordinates are integers.  A coordinate unit is 2^(MaxDepth+1) and the
\* padding of the quadtree root is half a unit, so that every midpoint the
\* tree computes down to MaxDepth is an integer, as exact as (a + b) / 2.0.
RECURSIVE Pow2(_)
Pow2(n) == IF n = 0 THEN 1 ELSE 2 * Pow2(n - 1)
Padding == Pow2(MaxDepth)
Unit == 2 * Padding
UnitCoords == 0..2
Coords == {u * Unit : u \in UnitCoords}
LidarPoint == [x : Coords, y : Coords]
PointSlices == UNION {[1..n -> LidarPoint] : n \in 0..MaxPoints}
CellSizes == {k * Padding : k \in 1..CellSizeMax}
Queries == {q \in Coords \X Coords \X Coords \X Coords : q[1] <= q[3] /\ q[2] <= q[4]}

MinOf(S) == CHOOSE m \in S : \A x \in S : m <= x
Xs(points) == {points[i].x : i \in DOMAIN points}
Ys(points) == {points[i].y : i \in DOMAIN points}

\* ((v - origin) / cell_size).floor() as i64, cell_size positive
CellCoord(v, origin, cell_size) == (v - origin) \div cell_size

cell_key(index, x, y) ==
    [col |-> CellCoord(x, index.origin_x, index.cell_size),
     row |-> CellCoord(y, index.origin_y, index.cell_size)]

\* the origin is the minimum corner of the points; the cells map each key
\* to the indices of the points that fall in it
build_from_points(points, cell_size) ==
    LET index0 == [cell_size |-> cell_size,
                   origin_x |-> IF points = <<>> THEN 0 ELSE MinOf(Xs(points)),
                   origin_y |-> IF points = <<>> THEN 0 ELSE MinOf(Ys(points))]
        key(i) == cell_key(index0, points[i].x, points[i].y)
        keys == {key(i) : i \in DOMAIN points}
    IN  [cell_size |-> cell_size, origin_x |-> index0.origin_x,
         origin_y |-> index0.origin_y,
         cells |-> [k \in keys |-> {i \in DOMAIN points : key(i) = k}],
         point_count |-> Len(points)]

\* SpatialGridIndex::query_bbox
grid_query_bbox(index, min_x, min_y, max_x, max_y) ==
    LET min_col == CellCoord(min_x, index.origin_x, index.cell_size)
        max_col == CellCoord(max_x, index.origin_x, index.cell_size)
        min_row == CellCoord(min_y, index.origin_y, index.cell_size)
        max_row == CellCoord(max_y, index.origin_y, index.cell_size)
    IN  UNION {index.cells[k] :
                  k \in {c \in DOMAIN index.cells : /\ c.col \in min_col..max_col
                                                    /\ c.row \in min_row..max_row}}

\* ---- OctreeNode, on the XY plane ----
NoNode == [nil |-> TRUE]
NoChildren == [some |-> FALSE, c |-> <<>>]
new_leaf(bounds, depth) ==
    [nil |-> FALSE, bounds |-> bounds, points |-> <<>>, children |-> NoChildren,
     depth |-> depth]

\* bounds are <<min_x, min_y, max_x, max_y>>
contains_xy(node, x, y) ==
    /\ x >= node.bounds[1] /\ x <= node.bounds[3]
    /\ y >= node.bounds[2] /\ y <= node.bounds[4]

intersects_bbox_Exclusive(node, min_x, min_y, max_x, max_y) ==
    ~(\/ node.bounds[3] <= min_x
      \/ node.bounds[1] >= max_x
      \/ node.bounds[4] <= min_y
      \/ node.bounds[2] >= max_y)

intersects_bbox(node, min_x, min_y, max_x, max_y) ==
    ~(\/ node.bounds[3] < min_x
      \/ node.bounds[1] > max_x
      \/ node.bounds[4] < min_y
      \/ node.bounds[2] > max_y)

MidX(node) == (node.bounds[1] + node.bounds[3]) \div 2
MidY(node) == (node.bounds[2] + node.bounds[4]) \div 2

quadrant_for_point_AlwaysSW(node, x, y) == 0

quadrant_for_point(node, x, y) ==
    LET right == x >= MidX(node)
        top == y >= MidY(node)
    IN  IF ~right /\ ~top THEN 0
        ELSE IF right /\ ~top THEN 1
        ELSE IF ~right /\ top THEN 2
        ELSE 3

child_bounds(node, quadrant) ==
    CASE quadrant = 0 -> <<node.bounds[1], node.bounds[2], MidX(node), MidY(node)>>
      [] quadrant = 1 -> <<MidX(node), node.bounds[2], node.bounds[3], MidY(node)>>
      [] quadrant = 2 -> <<node.bounds[1], MidY(node), MidX(node), node.bounds[4]>>
      [] quadrant = 3 -> <<MidX(node), MidY(node), node.bounds[3], node.bounds[4]>>

\* OctreeNode::MAX_POINTS_PER_NODE and OctreeNode::MAX_DEPTH
MAX_POINTS_PER_NODE == 1000
MAX_DEPTH == 12

\* the two limits as insert reads them: the program's own where the index is
\* built at full size, the scaled ones elsewhere
NodeCapacity == IF ix.full THEN MAX_POINTS_PER_NODE ELSE MaxPointsPerNode
DepthLimit == IF ix.full THEN MAX_DEPTH ELSE MaxDepth

RECURSIVE insert(_, _, _), split(_, _), InsertRange(_, _, _, _, _)

\* OctreeNode::insert: a point outside the node is dropped; a node with
\* children hands the point to the child of its quadrant, created on demand;
\* a leaf keeps it and splits when it overflows above MAX_DEPTH
insert(node, point_idx, points) ==
    LET point == points[point_idx]
    IN  IF ~contains_xy(node, point.x, point.y) THEN node
        ELSE IF node.children.some
        THEN LET quadrant == quadrant_for_point(node, point.x, point.y)
                 child == IF node.children.c[quadrant].nil
                          THEN new_leaf(child_bounds(node, quadrant), node.depth + 1)
                          ELSE node.children.c[quadrant]
             IN  [node EXCEPT !.children.c[quadrant] = insert(child, point_idx, points)]
        ELSE LET leaf == [node EXCEPT !.points = Append(@, point_idx)]
             IN  IF Len(leaf.points) > NodeCapacity /\ leaf.depth < DepthLimit
                 THEN split(leaf, points)
                 ELSE leaf

\* insert old_points[lo..hi] into the node, in order (the range is halved,
\* and the left half looked at before the right one is entered, so that the
\* evaluation stays shallow on long slices)
InsertRange(node, old_points, lo, hi, points) ==
    IF lo > hi THEN node
    ELSE IF lo = hi THEN insert(node, old_points[lo], points)
    ELSE LET mid == (lo + hi) \div 2
             left == InsertRange(node, old_points, lo, mid, points)
         IN  IF left.nil THEN left ELSE InsertRange(left, old_points, mid + 1, hi, points)

\* the for loop of split: insert old_points[k..] into the node
InsertAll(node, old_points, k, points) ==
    InsertRange(node, old_points, k, Len(old_points), points)

\* OctreeNode::split
split(node, points) ==
    InsertAll([node EXCEPT !.points = <<>>,
                           !.children = [some |-> TRUE, c |-> [q \in 0..3 |-> NoNode]]],
              node.points, 1, points)

RECURSIVE node_query_bbox(_, _, _, _, _)
\* OctreeNode::query_bbox
node_query_bbox(node, min_x, min_y, max_x, max_y) ==
    IF ~intersects_bbox(node, min_x, min_y, max_x, max_y) THEN {}
    ELSE {node.points[k] : k \in DOMAIN node.points}
         \cup (IF node.children.some
               THEN UNION {node_query_bbox(node.children.c[q], min_x, min_y, max_x, max_y) :
                              q \in {r \in 0..3 : ~node.children.c[r].nil}}
               ELSE {})

\* QuadtreeSpatialIndex::build, up to the insertions: the root leaf over the
\* padded extent of the points (an empty slice gives an inverted extent)
QuadtreeRoot(points) ==
    IF points = <<>> THEN new_leaf(<<1, 1, 0, 0>>, 0)
    ELSE new_leaf(<<MinOf(Xs(points)) - Padding, MinOf(Ys(points)) - Padding,
                    MaxOf(Xs(points)) + Padding, MaxOf(Ys(points)) + Padding>>, 0)

\* QuadtreeSpatialIndex::query_bbox
quadtree_query_bbox(root, min_x, min_y, max_x, max_y) ==
    node_query_bbox(root, min_x, min_y, max_x, max_y)

IxEnv == UNCHANGED <<tvars, rayon, ld, flt, rs, cp, rg, ce>>

\* SpatialGridIndex::build_from_points over the slice
GridBuild ==
    /\ ix.pc = "start"
    /\ ix' = [ix EXCEPT !.pc = "grid_built",
                        !.grid = build_from_points(ix.points, ix.cell_size)]
    /\ IxEnv

\* QuadtreeSpatialIndex::build: the root
QuadBuildRoot ==
    /\ ix.pc = "grid_built"
    /\ ix' = [ix EXCEPT !.pc = "inserting", !.next = 1, !.tree = QuadtreeRoot(ix.points)]
    /\ IxEnv

\* QuadtreeSpatialIndex::build: one turn of the insertion loop
QuadBuildInsert ==
    /\ ix.pc = "inserting"
    /\ ix.next <= Len(ix.points)
    /\ ix' = [ix EXCEPT !.next = @ + 1, !.tree = insert(ix.tree, ix.next, ix.points)]
    /\ IxEnv

\* a caller queries the grid with a rectangle
GridQueryBbox ==
    /\ ix.pc = "inserting"
    /\ ix.next > Len(ix.points)
    /\ \E q \in Queries :
          ix' = [ix EXCEPT !.pc = "grid_queried", !.q = q,
                           !.out_grid = grid_query_bbox(ix.grid, q[1], q[2], q[3], q[4])]
    /\ IxEnv

\* and the quadtree with the same rectangle
QuadQueryBbox ==
    /\ ix.pc = "grid_queried"
    /\ ix' = [ix EXCEPT !.pc = "queried",
                        !.out_quad = quadtree_query_bbox(ix.tree, ix.q[1], ix.q[2],
                                                         ix.q[3], ix.q[4])]
    /\ IxEnv

InitIndex ==
    /\ \E points \in PointSlices, cell_size \in CellSizes :
          ix = [Index0("start") EXCEPT !.points = points, !.cell_size = cell_size]
    /\ rayon = FALSE
    /\ ld = LoadOff
    /\ OthersOff
    /\ remote = "good" /\ urlKind = "laz" /\ truncOpens = FALSE
    /\ budget = 0 /\ maxLoads = 0 /\ initFile = NoFile /\ file = NoFile
    /\ faults = 0
    /\ wk = [w \in Workers |-> Worker0("off")]

NextIndex ==
    \/ GridBuild
    \/ QuadBuildRoot
    \/ QuadBuildInsert
    \/ GridQueryBbox
    \/ QuadQueryBbox

SpecIndex == InitIndex /\ [][NextIndex]_vars

\* the points of the slice that lie in the query rectangle, borders included
InsideQuery ==
    {i \in DOMAIN ix.points : /\ ix.q[1] <= ix.points[i].x /\ ix.points[i].x <= ix.q[3]
                              /\ ix.q[2] <= ix.points[i].y /\ ix.points[i].y <= ix.q[4]}

\* C10: for both indexes, built over any slice of points, query_bbox returns
\* the index of every point inside the query rectangle (borders included);
\* indices of points outside it may be returned as well.
C10_NoFalseNegatives ==
    /\ ix.pc \in {"grid_queried", "queried"} => InsideQuery \subseteq ix.out_grid
    /\ ix.pc = "queried" => InsideQuery \subseteq ix.out_quad

\* both indexes answered a rectangle that has a point on its border, the
\* quadtree has split, and both returned a point that lies outside
C10_Witness ==
    /\ ix.pc = "queried"
    /\ ix.tree.children.some
    /\ \E i \in InsideQuery : ix.points[i].x = ix.q[1] \/ ix.points[i].x = ix.q[3]
    /\ ix.out_grid \ InsideQuery # {}
    /\ ix.out_quad \ InsideQuery # {}

\* ------------------------------------------------------------------------
\* Lidar::filter_points_with_spatial_index
\* ------------------------------------------------------------------------
SmallThreshold == 2   \* the 10_000 points below which the scan is linear, scaled down
LargeThreshold == 3   \* the 100_000 points below which the grid is used, scaled down
SampleDiv == 2        \* the 100 of point_count / 100, scaled down
SampleMin == 2        \* the 100 of .max(100), scaled down
CellDiv == 2          \* the 100.0 the data extent is divided by, scaled down
MinCellSize == 4      \* the 10.0 minimum cell size, in model coordinates

TransferOff ==
    /\ remote = "good" /\ urlKind = "laz" /\ truncOpens = FALSE
    /\ budget = 0 /\ maxLoads = 0 /\ initFile = NoFile /\ file = NoFile
    /\ faults = 0
    /\ wk = [w \in Workers |-> Worker0("off")]

\* p.x >= x_min && p.x <= x_max && p.y >= y_min && p.y <= y_max
InBbox(p, q) == p.x >= q[1] /\ p.x <= q[3] /\ p.y >= q[2] /\ p.y <= q[4]

\* the indices 1..n in order
Indices(n) == [i \in 1..n |-> i]

\* a set of indices in ascending order: the order of insertion into a cell
RECURSIVE AscSeq(_)
AscSeq(S) == IF S = {} THEN <<>> ELSE <<MinOf(S)>> \o AscSeq(S \ {MinOf(S)})

\* the small-input branch: points.iter().filter(..)
LinearScan(points, q) ==
    SelectSeq(Indices(Len(points)), LAMBDA i : InBbox(points[i], q))

PreciseFilter_KeepsAll(points, candidates, q) == candidates

\* the final precise filtering of the candidates an index returned
PreciseFilter(points, candidates, q) ==
    SelectSeq(candidates, LAMBDA i : InBbox(points[i], q))

\* the bounds estimated from every step-th point
SampleIndices(point_count) ==
    LET sample_size == MinOf({MaxOf({point_count \div SampleDiv, SampleMin}), point_count})
        step == MaxOf({point_count \div sample_size, 1})
    IN  {i + 1 : i \in {j \in 0..(point_count - 1) : j % step = 0}}

SampleExtent(points) ==
    LET sample == SampleIndices(Len(points))
        xs == {points[i].x : i \in sample}
        ys == {points[i].y : i \in sample}
    IN  [dx |-> MaxOf(xs) - MinOf(xs), dy |-> MaxOf(ys) - MinOf(ys)]

\* selectivity > 0.5, with selectivity 1.0 when the sampled data area is not positive
HighSelectivity(points, q) ==
    LET e == SampleExtent(points)
        data_area == e.dx * e.dy
        query_area == (q[3] - q[1]) * (q[4] - q[2])
    IN  IF data_area > 0 THEN 2 * query_area > data_area ELSE TRUE

Strategy_GridNeedsBoth(points, q) ==
    IF Len(points) < SmallThreshold THEN "linear"
    ELSE IF HighSelectivity(points, q) /\ Len(points) < LargeThreshold THEN "grid"
    ELSE "quadtree"

\* which of the three strategies the size and the selectivity select
Strategy(points, q) ==
    IF Len(points) < SmallThreshold THEN "linear"
    ELSE IF HighSelectivity(points, q) \/ Len(points) < LargeThreshold THEN "grid"
    ELSE "quadtree"

\* the cell size of the grid branch
FilterCellSize(points) ==
    LET e == SampleExtent(points)
    IN  MaxOf({e.dx \div CellDiv, e.dy \div CellDiv, MinCellSize})

\* SpatialGridIndex::query_bbox as the vector it returns: columns, then rows,
\* then the indices of the cell in insertion order
RECURSIVE GridScan(_, _, _, _, _, _)
GridScan(index, col, row, min_row, max_col, max_row) ==
    IF col > max_col THEN <<>>
    ELSE IF row > max_row THEN GridScan(index, col + 1, min_row, min_row, max_col, max_row)
    ELSE LET key == [col |-> col, row |-> row]
         IN  (IF key \in DOMAIN index.cells THEN AscSeq(index.cells[key]) ELSE <<>>)
             \o GridScan(index, col, row + 1, min_row, max_col, max_row)

grid_query_candidates(index, q) ==
    GridScan(index, CellCoord(q[1], index.origin_x, index.cell_size),
                    CellCoord(q[2], index.origin_y, index.cell_size),
                    CellCoord(q[2], index.origin_y, index.cell_size),
                    CellCoord(q[3], index.origin_x, index.cell_size),
                    CellCoord(q[4], index.origin_y, index.cell_size))

\* OctreeNode::query_bbox as the vector it fills: the node's points, then
\* the children in quadrant order
RECURSIVE node_query_candidates(_, _), ChildrenCandidates(_, _, _)
node_query_candidates(node, q) ==
    IF ~intersects_bbox(node, q[1], q[2], q[3], q[4]) THEN <<>>
    ELSE node.points \o (IF node.children.some THEN ChildrenCandidates(node, 0, q) ELSE <<>>)

ChildrenCandidates(node, quadrant, q) ==
    IF quadrant > 3 THEN <<>>
    ELSE (IF node.children.c[quadrant].nil THEN <<>>
          ELSE node_query_candidates(node.children.c[quadrant], q))
         \o ChildrenCandidates(node, quadrant + 1, q)

\* QuadtreeSpatialIndex::build: the root and the insertion of every point
QuadtreeBuild(points) == InsertAll(QuadtreeRoot(points), Indices(Len(points)), 1, points)

FlEnv == UNCHANGED <<tvars, rayon, ld, ix, rs, cp, rg, ce>>

\* point_count < 10_000: the linear scan
FilterLinear ==
    /\ flt.pc = "start" /\ Strategy(flt.points, flt.q) = "linear"
    /\ flt' = [flt EXCEPT !.pc = "done", !.strategy = "linear",
                          !.out = LinearScan(flt.points, flt.q)]
    /\ FlEnv

\* the grid branch: build, query, precise filter
FilterGrid ==
    /\ flt.pc = "start" /\ Strategy(flt.points, flt.q) = "grid"
    /\ LET grid_index == build_from_points(flt.points, FilterCellSize(flt.points))
           candidate_indices == grid_query_candidates(grid_index, flt.q)
       IN  flt' = [flt EXCEPT !.pc = "done", !.strategy = "grid",
                              !.cell_size = grid_index.cell_size,
                              !.candidates = candidate_indices,
                              !.out = PreciseFilter(flt.points, candidate_indices, flt.q)]
    /\ FlEnv

\* the quadtree branch: build, query, precise filter
FilterQuadtree ==
    /\ flt.pc = "start" /\ Strategy(flt.points, flt.q) = "quadtree"
    /\ LET quadtree == QuadtreeBuild(flt.points)
           candidate_indices == node_query_candidates(quadtree, flt.q)
       IN  flt' = [flt EXCEPT !.pc = "done", !.strategy = "quadtree",
                              !.candidates = candidate_indices,
                              !.out = PreciseFilter(flt.points, candidate_indices, flt.q)]
    /\ FlEnv

InitFilter ==
    /\ \E points \in PointSlices, q \in Coords \X Coords \X Coords \X Coords :
          flt = [pc |-> "start", points |-> points, q |-> q, strategy |-> "none",
                 cell_size |-> 0, candidates |-> <<>>, out |-> <<>>]
    /\ rs = RasterOff /\ cp = PathOff /\ rg = RangeOff /\ ce = EntriesOff
    /\ ix = IndexOff /\ ld = LoadOff /\ rayon = FALSE
    /\ TransferOff

NextFilter == FilterLinear \/ FilterGrid \/ FilterQuadtree

SpecFilter == InitFilter /\ [][NextFilter]_vars

\* the points the call returns, as occurrences of the input slice
Occurrences(out) == {out[k] : k \in DOMAIN out}

\* C11: whichever strategy is selected, the result holds exactly the points
\* with x_min <= x <= x_max and y_min <= y <= y_max: every matching point of
\* the slice once, none outside, that is the points the plain linear filter
\* keeps (the indexed strategies return them in the order of the index).
C11_FilterIsExact ==
    flt.pc = "done" =>
        /\ Occurrences(flt.out) = Occurrences(LinearScan(flt.points, flt.q))
        /\ Len(flt.out) = Cardinality(Occurrences(flt.out))
        /\ \A k \in DOMAIN flt.out : InBbox(flt.points[flt.out[k]], flt.q)
        /\ flt.strategy = "linear" => flt.out = LinearScan(flt.points, flt.q)

\* the quadtree strategy returned a point on the border of the rectangle and
\* dropped a candidate outside it
C11_Witness ==
    /\ flt.pc = "done" /\ flt.strategy = "quadtree"
    /\ \E k \in DOMAIN flt.out : flt.points[flt.out[k]].x = flt.q[3]
    /\ Len(flt.candidates) > Len(flt.out)

\* ------------------------------------------------------------------------
\* The quadtree at full size: tests::test_quadtree_spatial_index
\* ------------------------------------------------------------------------
LatticeSide == 100       \* for i in 0..100, for j in 0..100
LatticeSpacing == 10     \* x: i as f64 * 10.0
LatticePadding == 2      \* the padding 0.001, in model coordinates
QueryHalfSide == 5       \* the rectangle reaches 5.0 either side of a lattice point
FewCandidates == 100     \* candidates.len() < 100

\* one model coordinate is half the padding, so that the midpoints of the
\* root and of its children are integers
PerUnit == 1000 * LatticePadding

LatticePoints ==
    [k \in 1..(LatticeSide * LatticeSide) |->
        [x |-> ((k - 1) \div LatticeSide) * LatticeSpacing * PerUnit,
         y |-> ((k - 1) % LatticeSide) * LatticeSpacing * PerUnit]]

\* QuadtreeSpatialIndex::build, the root: the extent of the lattice, padded
LatticeRoot(points) ==
    new_leaf(<<MinOf(Xs(points)) - LatticePadding, MinOf(Ys(points)) - LatticePadding,
               MaxOf(Xs(points)) + LatticePadding, MaxOf(Ys(points)) + LatticePadding>>, 0)

\* the 10 x 10 rectangle around the lattice point (i, j)
LatticeQuery(i, j) ==
    <<(i * LatticeSpacing - QueryHalfSide) * PerUnit, (j * LatticeSpacing - QueryHalfSide) * PerUnit,
      (i * LatticeSpacing + QueryHalfSide) * PerUnit, (j * LatticeSpacing + QueryHalfSide) * PerUnit>>

\* the lattice points the query rectangles are centred on: every fifth one
\* inside the lattice, (5, 5) being the test's
LatticeCentres == {c \in 1..(LatticeSide - 2) : c % QueryHalfSide = 0}

LtEnv == UNCHANGED <<tvars, rayon, ld, flt, rs, cp, rg, ce>>

LatticeBuildRoot ==
    /\ ix.pc = "lattice"
    /\ ix' = [ix EXCEPT !.pc = "lattice_inserting", !.next = 1, !.tree = LatticeRoot(ix.points)]
    /\ LtEnv

\* the insertion loop of build, one lattice column of points at a step
LatticeBuildInsert ==
    /\ ix.pc = "lattice_inserting"
    /\ ix.next <= Len(ix.points)
    /\ ix' = [ix EXCEPT !.next = @ + LatticeSide,
                        !.tree = InsertRange(ix.tree, Indices(Len(ix.points)), ix.next,
                                             ix.next + LatticeSide - 1, ix.points)]
    /\ LtEnv

\* quadtree.query_bbox(45.0, 45.0, 55.0, 55.0), and the same around other lattice points
LatticeQueryBbox ==
    /\ ix.pc = "lattice_inserting"
    /\ ix.next > Len(ix.points)
    /\ \E i \in LatticeCentres, j \in LatticeCentres :
          ix' = [ix EXCEPT !.pc = "lattice_queried", !.q = LatticeQuery(i, j),
                           !.candidates = node_query_candidates(ix.tree, LatticeQuery(i, j))]
    /\ LtEnv

InitLattice ==
    /\ ix = [Index0("lattice") EXCEPT !.full = TRUE, !.points = LatticePoints]
    /\ OthersOff
    /\ ld = LoadOff /\ rayon = FALSE
    /\ TransferOff

NextLattice == LatticeBuildRoot \/ LatticeBuildInsert \/ LatticeQueryBbox

SpecLattice == InitLattice /\ [][NextLattice]_vars

\* C12: over the 100 x 100 lattice, a 10 x 10 query rectangle gets a
\* non-empty list of fewer than 100 candidates, every one of them within one
\* lattice spacing of the rectangle.
C12_FewNearCandidates ==
    ix.pc = "lattice_queried" =>
        /\ ix.candidates # <<>>
        /\ Len(ix.candidates) < FewCandidates
        /\ \A k \in DOMAIN ix.candidates :
              LET p == ix.points[ix.candidates[k]]
              IN  /\ p.x >= ix.q[1] - LatticeSpacing * PerUnit
                  /\ p.x <= ix.q[3] + LatticeSpacing * PerUnit
                  /\ p.y >= ix.q[2] - LatticeSpacing * PerUnit
                  /\ p.y <= ix.q[4] + LatticeSpacing * PerUnit

\* ------------------------------------------------------------------------
\* process_lidar_points: the three grids
\* ------------------------------------------------------------------------
XExtent == 3             \* x runs over 0..XExtent
YExtent == 2             \* y runs over 0..YExtent
ZMax == 1                \* heights lie on either side of the fallback 0.0
MaxRasterPoints == 2
MaxResolution == 2

GROUND == 2              \* point.classification == 2
INFINITY == 1000         \* f64::INFINITY: above every height
NEG_INFINITY == -INFINITY

Classifications == {GROUND, GROUND + 3}
Heights == {-ZMax, ZMax}
RasterPoint == [x : 0..XExtent, y : 0..YExtent, z : Heights, classification : Classifications]
RasterSlices == UNION {[1..n -> RasterPoint] : n \in 0..MaxRasterPoints}
Resolutions == 1..MaxResolution
BBoxes == {<<x_min, 0, XExtent, YExtent>> : x_min \in 0..1}
NoList == [some |-> FALSE, list |-> {}]
SomeList(L) == [some |-> TRUE, list |-> L]
ClassLists == {NoList} \cup {SomeList(L) : L \in SUBSET Classifications \ {{}}}

\* the two scenarios, in halves of a unit: a ground point z = 10 and another
\* point z = 15 at (50.5, 50.5) in (0, 0, 100, 100) at resolution 1.0; and
\* ground points 10, 12, 11, 9 around a cell that has none
StackedScenario ==
    [points |-> <<[x |-> 101, y |-> 101, z |-> 10, classification |-> GROUND],
                  [x |-> 101, y |-> 101, z |-> 15, classification |-> GROUND + 3]>>,
     bbox |-> <<0, 0, 200, 200>>, classification_list |-> NoList, resolution |-> 2]
GapScenario ==
    [points |-> <<[x |-> 3, y |-> 5, z |-> 10, classification |-> GROUND],
                  [x |-> 1, y |-> 3, z |-> 12, classification |-> GROUND],
                  [x |-> 5, y |-> 3, z |-> 11, classification |-> GROUND],
                  [x |-> 3, y |-> 1, z |-> 9, classification |-> GROUND]>>,
     bbox |-> <<0, 0, 6, 6>>, classification_list |-> NoList, resolution |-> 2]

RasterInputs ==
    [points : RasterSlices, bbox : BBoxes, classification_list : ClassLists,
     resolution : Resolutions] \cup {StackedScenario, GapScenario}

\* (a / b).ceil() as usize and (a / b).floor() as usize, b positive: the
\* cast takes a negative value to 0
CeilDiv_Floor(a, b) == IF a < 0 THEN 0 ELSE a \div b
CeilDiv(a, b) == IF a <= 0 THEN 0 ELSE (a + b - 1) \div b
FloorDiv(a, b) == IF a < 0 THEN 0 ELSE a \div b

\* the two filters at the head of process_lidar_points
FilterBbox(points, bbox) ==
    SelectSeq(points, LAMBDA p : p.x >= bbox[1] /\ p.x <= bbox[3] /\ p.y >= bbox[2] /\ p.y <= bbox[4])
FilterClass_Ignored(points, classification_list) == points
FilterClass(points, classification_list) ==
    IF classification_list.some
    THEN SelectSeq(points, LAMBDA p : p.classification \in classification_list.list)
    ELSE points

GridWidth(bbox, resolution) == CeilDiv(bbox[3] - bbox[1], resolution)
GridHeight(bbox, resolution) == CeilDiv(bbox[4] - bbox[2], resolution)

\* vec![vec![v; width]; height]
Grid(width, height, v) == [row \in 0..(height - 1) |-> [col \in 0..(width - 1) |-> v]]

PointCol(point, bbox, resolution) == FloorDiv(point.x - bbox[1], resolution)
PointRow(point, bbox, resolution) == FloorDiv(bbox[4] - point.y, resolution)

\* if point.z > cell || cell == f64::NEG_INFINITY { cell = point.z }
CellMax_Last(z, cell) == z
CellMax_First(z, cell) == IF cell = NEG_INFINITY THEN z ELSE cell
CellMax(z, cell) == IF z > cell \/ cell = NEG_INFINITY THEN z ELSE cell

\* the loop over the filtered points, from the k-th on
RECURSIVE PointPass(_, _, _, _, _, _, _, _)
PointPass(dsm, dtm, pts, k, bbox, resolution, width, height) ==
    IF k > Len(pts) THEN [dsm |-> dsm, dtm |-> dtm]
    ELSE LET point == pts[k]
             col == PointCol(point, bbox, resolution)
             row == PointRow(point, bbox, resolution)
             inside == col < width /\ row < height
             dsm1 == IF inside THEN [dsm EXCEPT ![row][col] = CellMax(point.z, @)] ELSE dsm
             dtm1 == IF inside /\ point.classification = GROUND
                     THEN [dtm EXCEPT ![row][col] = CellMax(point.z, @)]
                     ELSE dtm
         IN  PointPass(dsm1, dtm1, pts, k + 1, bbox, resolution, width, height)

\* the values the 3 x 3 window around (row, col) takes from dtm
NeighborValues(dtm, row, col, width, height) ==
    {dtm[r][c] : <<r, c>> \in
        {rc \in (row - 1..row + 1) \X (col - 1..col + 1) :
            /\ rc[1] >= 0 /\ rc[1] < height /\ rc[2] >= 0 /\ rc[2] < width
            /\ dtm[rc[1]][rc[2]] # NEG_INFINITY}}

\* min_neighbor, INFINITY when the window holds no value
MinNeighbor_Max(dtm, row, col, width, height) ==
    LET vals == NeighborValues(dtm, row, col, width, height)
    IN  IF vals = {} THEN INFINITY ELSE MaxOf(vals)
MinNeighbor(dtm, row, col, width, height) ==
    LET vals == NeighborValues(dtm, row, col, width, height)
    IN  IF vals = {} THEN INFINITY ELSE MinOf(vals)

\* the gap-filling pass: dtm_filled, read from dtm
FillGaps(dtm, width, height) ==
    [row \in 0..(height - 1) |-> [col \in 0..(width - 1) |->
        IF dtm[row][col] = NEG_INFINITY
        THEN LET min_neighbor == MinNeighbor(dtm, row, col, width, height)
             IN  IF min_neighbor # INFINITY THEN min_neighbor ELSE 0
        ELSE dtm[row][col]]]

\* one cell of chm
ChmCell_NoClamp(surface, terrain) ==
    IF surface # NEG_INFINITY /\ terrain # NEG_INFINITY THEN surface - terrain ELSE 0
ChmCell(surface, terrain) ==
    IF surface # NEG_INFINITY /\ terrain # NEG_INFINITY
    THEN (IF surface - terrain < 0 THEN 0 ELSE surface - terrain)
    ELSE 0

Chm(dsm, dtm_filled, width, height) ==
    [row \in 0..(height - 1) |-> [col \in 0..(width - 1) |->
        ChmCell(dsm[row][col], dtm_filled[row][col])]]

Transform(bbox, resolution) == <<bbox[1], resolution, 0, bbox[4], 0, -resolution>>

\* process_lidar_points from end to end
ProcessedRasters(points, bbox, classification_list, resolution) ==
    LET width == GridWidth(bbox, resolution)
        height == GridHeight(bbox, resolution)
        filtered == FilterClass(FilterBbox(points, bbox), classification_list)
        pass == PointPass(Grid(width, height, NEG_INFINITY), Grid(width, height, NEG_INFINITY),
                          filtered, 1, bbox, resolution, width, height)
        dtm_filled == FillGaps(pass.dtm, width, height)
    IN  [dsm |-> pass.dsm, dtm |-> dtm_filled,
         chm |-> Chm(pass.dsm, dtm_filled, width, height),
         width |-> width, height |-> height, transform |-> Transform(bbox, resolution)]

NoRasters == [dsm |-> <<>>, dtm |-> <<>>, chm |-> <<>>, width |-> 0, height |-> 0,
              transform |-> <<>>]

\* what the first of two calls was given and returned
NoFirst == [points |-> <<>>, out |-> NoRasters]

Raster0(input, call, first) ==
    [pc |-> "start", points |-> input.points, bbox |-> input.bbox,
     classification_list |-> input.classification_list, resolution |-> input.resolution,
     filtered_points |-> <<>>, dsm_pass |-> <<>>, dtm_pass |-> <<>>,
     out |-> NoRasters, call |-> call, first |-> first]

RsEnv == UNCHANGED <<tvars, rayon, ld, ix, flt, cp, rg, ce>>

\* the filters, the dimensions and the loop over the points
RasterPointPass ==
    /\ rs.pc = "start"
    /\ LET width == GridWidth(rs.bbox, rs.resolution)
           height == GridHeight(rs.bbox, rs.resolution)
           filtered == FilterClass(FilterBbox(rs.points, rs.bbox), rs.classification_list)
           pass == PointPass(Grid(width, height, NEG_INFINITY), Grid(width, height, NEG_INFINITY),
                             filtered, 1, rs.bbox, rs.resolution, width, height)
       IN  rs' = [rs EXCEPT !.pc = "points_done", !.filtered_points = filtered,
                            !.dsm_pass = pass.dsm, !.dtm_pass = pass.dtm,
                            !.out = [NoRasters EXCEPT !.width = width, !.height = height,
                                                      !.dsm = pass.dsm]]
    /\ RsEnv

RasterFillGaps ==
    /\ rs.pc = "points_done"
    /\ rs' = [rs EXCEPT !.pc = "gaps_done",
                        !.out.dtm = FillGaps(rs.dtm_pass, rs.out.width, rs.out.height)]
    /\ RsEnv

\* chm, the transform and the return
RasterCanopy ==
    /\ rs.pc = "gaps_done"
    /\ rs' = [rs EXCEPT !.pc = "done",
                        !.out.chm = Chm(rs.out.dsm, rs.out.dtm, rs.out.width, rs.out.height),
                        !.out.transform = Transform(rs.bbox, rs.resolution)]
    /\ RsEnv

\* the points of a slice in another order (the same one included)
Reorderings(points) ==
    {[i \in DOMAIN points |-> points[f[i]]] : f \in Permutations(DOMAIN points)}

\* a second call with the same parameters and the same points, in any order
RasterCallAgain ==
    /\ rs.pc = "done" /\ rs.call = 1
    /\ \E points \in Reorderings(rs.points) :
          rs' = Raster0([points |-> points, bbox |-> rs.bbox,
                         classification_list |-> rs.classification_list,
                         resolution |-> rs.resolution], 2,
                        [points |-> rs.points, out |-> rs.out])
    /\ RsEnv

InitRaster ==
    /\ \E input \in RasterInputs : rs = Raster0(input, 1, NoFirst)
    /\ flt = FilterOff /\ cp = PathOff /\ rg = RangeOff /\ ce = EntriesOff
    /\ ix = IndexOff /\ ld = LoadOff /\ rayon = FALSE
    /\ TransferOff

NextRaster == RasterPointPass \/ RasterFillGaps \/ RasterCanopy \/ RasterCallAgain

SpecRaster == InitRaster /\ [][NextRaster]_vars

\* the filtered points that fall into the cell (row, col)
AssignedTo(row, col) ==
    {k \in DOMAIN rs.filtered_points :
        LET point == rs.filtered_points[k]
        IN  /\ (point.x - rs.bbox[1]) \div rs.resolution = col
            /\ (rs.bbox[4] - point.y) \div rs.resolution = row}
HighestOrNoData(zs) == IF zs = {} THEN NEG_INFINITY ELSE MaxOf(zs)
PointPassDone == rs.pc \in {"points_done", "gaps_done", "done"}
FromScenario(input) ==
    /\ rs.points = input.points /\ rs.bbox = input.bbox
    /\ rs.classification_list = input.classification_list /\ rs.resolution = input.resolution

\* C13: after the point pass every surface cell holds the highest z of the
\* filtered points that fall into it (col = floor((x - xmin)/resolution),
\* row = floor((ymax - y)/resolution)) and no-data when none does; every
\* terrain cell holds the highest z of the ground points among them. In the
\* scenario of the two points at (50.5, 50.5), cell [49][50] ends with
\* surface 15, terrain 10 and canopy 5.
C13_CellsHoldHighestPoint ==
    /\ PointPassDone =>
          \A row \in 0..(rs.out.height - 1), col \in 0..(rs.out.width - 1) :
             /\ rs.dsm_pass[row][col] =
                   HighestOrNoData({rs.filtered_points[k].z : k \in AssignedTo(row, col)})
             /\ rs.dtm_pass[row][col] =
                   HighestOrNoData({rs.filtered_points[k].z :
                                      k \in {n \in AssignedTo(row, col) :
                                               rs.filtered_points[n].classification = GROUND}})
    /\ (rs.pc = "done" /\ FromScenario(StackedScenario)) =>
          /\ rs.out.dsm[49][50] = 15
          /\ rs.out.dtm[49][50] = 10
          /\ rs.out.chm[49][50] = 5

\* the scenario has run to its end, and its cell holds both points
C13_Witness ==
    /\ rs.pc = "done" /\ FromScenario(StackedScenario)
    /\ AssignedTo(49, 50) = {1, 2}
    /\ rs.dsm_pass[49][50] > rs.dtm_pass[49][50]

\* the cells of the grid, and the cells next to one (up to 8)
Cells == (0..(rs.out.height - 1)) \X (0..(rs.out.width - 1))
NeighborCells(cell) ==
    {n \in ((cell[1] - 1)..(cell[1] + 1)) \X ((cell[2] - 1)..(cell[2] + 1)) :
        n # cell /\ n \in Cells}
HasGroundPoint(cell) == rs.dtm_pass[cell[1]][cell[2]] # NEG_INFINITY
GroundNeighborValues(cell) ==
    {rs.dtm_pass[n[1]][n[2]] : n \in {m \in NeighborCells(cell) : HasGroundPoint(m)}}
GapsFilled == rs.pc \in {"gaps_done", "done"}

\* C14: gap filling leaves a terrain cell that got a ground point as it is,
\* and sets any other to the lowest value among its neighbours that got a
\* ground point in the point pass, or to 0 when none did; a value filled in
\* the same pass is never read. Neighbours 10, 12, 11, 9 give 9.
C14_GapTakesLowestGroundNeighbor ==
    /\ GapsFilled =>
          \A cell \in Cells :
             rs.out.dtm[cell[1]][cell[2]] =
                IF HasGroundPoint(cell) THEN rs.dtm_pass[cell[1]][cell[2]]
                ELSE IF GroundNeighborValues(cell) = {} THEN 0
                ELSE MinOf(GroundNeighborValues(cell))
    /\ (GapsFilled /\ FromScenario(GapScenario)) =>
          /\ GroundNeighborValues(<<1, 1>>) = {10, 12, 11, 9}
          /\ rs.out.dtm[1][1] = 9

\* a gap filled with the lower of two ground neighbours, beside a gap that
\* has no ground neighbour and gets 0 rather than the value just filled in
C14_Witness ==
    /\ GapsFilled
    /\ \E a \in Cells : \E b \in NeighborCells(a) :
          /\ ~HasGroundPoint(a) /\ ~HasGroundPoint(b)
          /\ Cardinality(GroundNeighborValues(a)) > 1
          /\ rs.out.dtm[a[1]][a[2]] # 0
          /\ GroundNeighborValues(b) = {}
          /\ rs.out.dtm[b[1]][b[2]] = 0

\* C15: in the grids returned, every canopy cell is at least 0: it is
\* max(0, surface - terrain) where the surface and the filled terrain are
\* both valid, and 0 elsewhere.
C15_CanopyNonNegative ==
    rs.pc = "done" =>
       \A cell \in Cells :
          LET surface == rs.out.dsm[cell[1]][cell[2]]
              terrain == rs.out.dtm[cell[1]][cell[2]]
              canopy == rs.out.chm[cell[1]][cell[2]]
          IN  /\ canopy >= 0
              /\ canopy = IF surface # NEG_INFINITY /\ terrain # NEG_INFINITY
                          THEN MaxOf({0, surface - terrain})
                          ELSE 0

\* a cell whose surface lies below its terrain, and one with no surface
C15_Witness ==
    /\ rs.pc = "done"
    /\ \E cell \in Cells :
          /\ rs.out.dsm[cell[1]][cell[2]] # NEG_INFINITY
          /\ rs.out.dsm[cell[1]][cell[2]] < rs.out.dtm[cell[1]][cell[2]]
          /\ rs.out.chm[cell[1]][cell[2]] = 0
    /\ \E cell \in Cells : rs.out.dsm[cell[1]][cell[2]] = NEG_INFINITY

\* height rows of width cells each
HasShape(grid, width, height) ==
    /\ DOMAIN grid = 0..(height - 1)
    /\ \A row \in DOMAIN grid : DOMAIN grid[row] = 0..(width - 1)

\* n is the least whole number of cells of the resolution that cover the extent
CoversExtent(n, extent) ==
    n * rs.resolution >= extent /\ (n - 1) * rs.resolution < extent

\* C16: width = ceil((xmax - xmin)/resolution), height =
\* ceil((ymax - ymin)/resolution), each of the three grids has height rows of
\* width cells, and the transform is [xmin, resolution, 0, ymax, 0, -resolution].
C16_DimensionsAndTransform ==
    rs.pc = "done" =>
       /\ CoversExtent(rs.out.width, rs.bbox[3] - rs.bbox[1])
       /\ CoversExtent(rs.out.height, rs.bbox[4] - rs.bbox[2])
       /\ HasShape(rs.out.dsm, rs.out.width, rs.out.height)
       /\ HasShape(rs.out.dtm, rs.out.width, rs.out.height)
       /\ HasShape(rs.out.chm, rs.out.width, rs.out.height)
       /\ rs.out.transform = <<rs.bbox[1], rs.resolution, 0, rs.bbox[4], 0, -rs.resolution>>

\* a box whose sides are not whole multiples of the resolution
C16_Witness ==
    /\ rs.pc = "done"
    /\ (rs.bbox[3] - rs.bbox[1]) % rs.resolution # 0
    /\ (rs.bbox[4] - rs.bbox[2]) % rs.resolution = 0
    /\ rs.out.width > 1

\* C17: a second call on the same points, in the same or any other order,
\* returns the same surface, terrain and canopy grids as the first.
C17_SameGridsInAnyOrder ==
    (rs.pc = "done" /\ rs.call = 2) =>
       /\ rs.out.dsm = rs.first.out.dsm
       /\ rs.out.dtm = rs.first.out.dtm
       /\ rs.out.chm = rs.first.out.chm

\* the second call got the points in another order, two of them in one cell
\* with different heights
C17_Witness ==
    /\ rs.pc = "done" /\ rs.call = 2
    /\ rs.points # rs.first.points
    /\ \E cell \in Cells : \E j \in AssignedTo(cell[1], cell[2]), k \in AssignedTo(cell[1], cell[2]) :
          rs.filtered_points[j].z # rs.filtered_points[k].z

\* C18: with an allow-list L, the grids returned are those of a call without
\* a list on only the points whose classification is in L.
C18_AllowListIsPreFilter ==
    (rs.pc = "done" /\ rs.classification_list.some) =>
       LET allowed == SelectSeq(rs.points,
                                LAMBDA p : p.classification \in rs.classification_list.list)
           alone == ProcessedRasters(allowed, rs.bbox, NoList, rs.resolution)
       IN  /\ rs.out.dsm = alone.dsm
           /\ rs.out.dtm = alone.dtm
           /\ rs.out.chm = alone.chm

\* the list shuts out a point that would have changed the grids
C18_Witness ==
    /\ rs.pc = "done" /\ rs.classification_list.some
    /\ \E k \in DOMAIN rs.points : rs.points[k].classification \notin rs.classification_list.list
    /\ rs.out # ProcessedRasters(rs.points, rs.bbox, NoList, rs.resolution)

\* ------------------------------------------------------------------------
\* cache_path_for_url: the cache file of a URL
\* ------------------------------------------------------------------------
MaxSegmentLen == 2
MaxUrlLoads == 2
SchemeLen == 8           \* "https://"

\* a URL is https://<host>/<dir>/<segment> or https://<host>/<segment>, the
\* host one character long; the characters are those sanitizing tells apart
Hosts == {"a", "b"}
Dirs == {<<>>, <<"t">>}
Alphanumeric == {"f"}
KeptAsIs == Alphanumeric \cup {".", "_", "-"}
SegmentChars == {"f", ".", "_", " "}
Segments == UNION {[1..n -> SegmentChars] : n \in 0..MaxSegmentLen}
Urls == [host : Hosts, dir : Dirs, segment : Segments]

\* url.len()
UrlLen(url) ==
    SchemeLen + 1 + 1 + (IF url.dir = <<>> THEN 0 ELSE Len(url.dir) + 1) + Len(url.segment)

\* the map over the characters of the last segment
Sanitize(segment) ==
    [i \in DOMAIN segment |-> IF segment[i] \in KeptAsIs THEN segment[i] ELSE "_"]

\* cache_path_for_url: the file name under the cache directory
cache_path_for_url(url) ==
    LET sanitized == Sanitize(url.segment)
    IN  IF sanitized = <<>> THEN <<"unnamed", UrlLen(url)>> ELSE sanitized

\* the cache directory: file name -> the URL its bytes were fetched from
NoCache == <<>>
CachedNames(cache) == {cache[i].name : i \in DOMAIN cache}
CachedFor(cache, name) == (CHOOSE i \in DOMAIN cache : cache[i].name = name)

CpEnv == UNCHANGED <<tvars, rayon, ld, ix, flt, rs, rg, ce>>

\* load_single_laz_file on a healthy network, every remote file a valid
\* one: a cache file that exists and verifies is decoded, otherwise the URL
\* is downloaded and written to its cache path
PathLoad ==
    /\ cp.pc = "ready"
    /\ Len(cp.loads) < MaxUrlLoads
    /\ \E url \in Urls :
          LET name == cache_path_for_url(url)
              hit == name \in CachedNames(cp.cache)
              served == IF hit THEN cp.cache[CachedFor(cp.cache, name)].url ELSE url
          IN  cp' = [cp EXCEPT
                        !.cache = IF hit THEN @ ELSE Append(@, [name |-> name, url |-> url]),
                        !.loads = Append(@, [url |-> url, name |-> name, from_cache |-> hit,
                                             bytes_of |-> served])]
    /\ CpEnv

InitPath ==
    /\ cp = [pc |-> "ready", cache |-> NoCache, loads |-> <<>>]
    /\ flt = FilterOff /\ rs = RasterOff /\ rg = RangeOff /\ ce = EntriesOff
    /\ ix = IndexOff /\ ld = LoadOff /\ rayon = FALSE
    /\ TransferOff

NextPath == PathLoad

SpecPath == InitPath /\ [][NextPath]_vars

\* C19: two different URLs never share a cache file, so a load of a URL is
\* never served bytes that were fetched for another URL.
C19_OneCacheFilePerUrl ==
    cp.pc = "ready" =>
       /\ \A i \in DOMAIN cp.loads, j \in DOMAIN cp.loads :
             cp.loads[i].url # cp.loads[j].url => cp.loads[i].name # cp.loads[j].name
       /\ \A i \in DOMAIN cp.loads : cp.loads[i].bytes_of = cp.loads[i].url

\* ------------------------------------------------------------------------
\* The range path of load_single_laz_file and its fallback
\* ------------------------------------------------------------------------
\* a range request of this load was answered with a status other than 206,
\* or the prefix did not parse as a header, or the HEAD probe failed
RangeFailed(w) ==
    \/ wk[w].range.first \notin {"206", "unasked"}
    \/ wk[w].range.data \notin {"206", "unasked"}
    \/ wk[w].range.first = "206" /\ ~parse_las_header_ok(remote)
    \/ wk[w].range.head = "fail"
InFullDownload(w) ==
    /\ wk[w].via = "download"
    /\ wk[w].pc \in {"dl_head", "dl_get", "dl_verify", "wr_create", "wr_write", "laz_decode", "done"}

\* C20: when a range request is answered with a status other than 206 (200
\* included), or the prefix does not parse as a header, or the HEAD probe
\* fails, the load goes on in download_with_verification: nothing got on the
\* range path is written to the cache or decoded, what is written and decoded
\* is the body of a full GET, and that GET is sent once unless it fails and
\* is retried.
C20_RangeFailureFallsBackToFullGet ==
    \A w \in Workers :
       RangeFailed(w) =>
          /\ InFullDownload(w)
          /\ wk[w].fetched # "range"
          /\ wk[w].wrote.any => wk[w].fetched = "get" /\ wk[w].wrote.b = wk[w].data
          /\ wk[w].handed.any => wk[w].fetched = "get" /\ wk[w].handed.b = wk[w].data
          /\ wk[w].fetched = "get" => wk[w].attempts >= 1
          /\ wk[w].attempts <= 1 \/ wk[w].retries < MaxRetries

\* the server ignored the Range header (200); the file came whole from one
\* GET and was cached and decoded
C20_Witness ==
    \E w \in Workers :
       /\ wk[w].range.first = "200"
       /\ wk[w].pc = "done" /\ wk[w].result.ok
       /\ wk[w].fetched = "get" /\ wk[w].attempts = 1
       /\ Complete(wk[w].handed.b)
       /\ file.exists /\ FileBuf(file) = wk[w].handed.b

\* ------------------------------------------------------------------------
\* The order of the points a file's filter returns
\* ------------------------------------------------------------------------
\* C21: the points a file's bounding-box filter returns stand in the order
\* in which they were decoded, whichever strategy filtered them.
C21_DecodedOrderKept ==
    flt.pc = "done" =>
       \A j \in DOMAIN flt.out, k \in DOMAIN flt.out : j < k => flt.out[j] < flt.out[k]

\* ------------------------------------------------------------------------
\* What run() returns without a bounding box, without files, without points
\* ------------------------------------------------------------------------
\* run() was called on a Lidar no bounding box was ever set on
RunWithoutBbox == ld.run.done /\ ld.bbox = 0
\* run() was called after the tile service listed no file for the bounding box
RunWithoutFiles == ld.run.done /\ ld.has_list /\ ld.list_path_laz = 0
\* the set_bbox call before run() loaded points from at least one file
PointsWereLoaded ==
    /\ ld.sb = "ok"
    /\ AllLoaded /\ SomeFileYields
    /\ ld.loaded_points = SomePoints(ld.ret.pts)

\* C22: run() on a Lidar without a bounding box, or whose bounding box the
\* tile service listed no file for, returns an error and no raster; run()
\* succeeds only when the Lidar holds loaded points, and after the first
\* set_bbox only when that call loaded them.
C22_RunNeedsBboxFilesPoints ==
    /\ (RunWithoutBbox \/ RunWithoutFiles) => ld.run = RunErr
    /\ (ld.run.done /\ ld.run.ok) =>
          /\ ld.loaded_points.some /\ ld.run.pts = ld.loaded_points.pts
          /\ ld.calls = 0 => PointsWereLoaded

C22_Witness ==
    /\ RunWithoutFiles /\ ld.run = RunErr
    /\ ld.calls = 1 /\ ld.loaded_points.some

C22_WitnessNoBbox == RunWithoutBbox /\ ld.run = RunErr
C22_WitnessSucceeds == ld.run.done /\ ld.run.ok /\ ld.calls = 0 /\ PointsWereLoaded

\* ------------------------------------------------------------------------
\* The points run() builds the rasters from
\* ------------------------------------------------------------------------
\* C27: a successful run() builds its rasters from points that were loaded
\* for the Lidar's current bounding box, never from the points of an
\* earlier set_bbox call.
C27_NoStalePoints ==
    (ld.run.done /\ ld.run.ok) => ld.run.loaded_for = ld.run.bbox

\* ------------------------------------------------------------------------
\* download_laz_via_range, byte by byte
\* ------------------------------------------------------------------------
HEADER_RANGE_END == 4095        \* the header range is bytes 0..4095
LAS_OFFSET_TO_POINT_DATA == 94  \* the header field offset_to_point_data: bytes 94..97

\* the remote files: their length and the offset their header names
FileLens ==
    {LAS_HEADER_MIN_BYTES - 1, LAS_HEADER_MIN_BYTES, LAS_HEADER_MIN_BYTES + 1,
     HEADER_RANGE_END, HEADER_RANGE_END + 1, HEADER_RANGE_END + 2,
     HEADER_RANGE_END + 3, HEADER_RANGE_END + 5}
HeaderOffsets ==
    {0, LAS_HEADER_MIN_BYTES - 1, LAS_HEADER_MIN_BYTES,
     HEADER_RANGE_END, HEADER_RANGE_END + 1, HEADER_RANGE_END + 2,
     HEADER_RANGE_END + 4, HEADER_RANGE_END + 5}
RemoteFiles == [len : FileLens, offset_to_point_data : HeaderOffsets]

\* byte i of a file is written i, so that a byte out of place shows
FileBytes(f) == [i \in 1..f.len |-> i - 1]

\* what a server that honours Range sends for bytes=start-end: the bytes
\* start..end of the file, cut at the file's last byte
RangeBody(f, start, end) ==
    LET last == IF end < f.len - 1 THEN end ELSE f.len - 1
    IN  IF start > last THEN <<>> ELSE SubSeq(FileBytes(f), start + 1, last + 1)

\* the status a range request is answered with: 206, or 200 by a server
\* that ignores Range, or 416 when the range starts behind the file's end
RangeStatus(f, start, honoured) ==
    IF ~honoured THEN "200" ELSE IF start >= f.len THEN "416" ELSE "206"

\* download_partial_laz, with the body
download_partial_laz_body(f, start, end, honoured) ==
    IF download_partial_laz(RangeStatus(f, start, honoured))
    THEN [ok |-> TRUE, bytes |-> RangeBody(f, start, end)]
    ELSE [ok |-> FALSE, bytes |-> <<>>]

\* parse_las_header_from_slice: at least LAS_HEADER_MIN_BYTES bytes; the
\* field is read from the bytes 94..97 of the buffer
parse_las_header_from_slice(f, buf) ==
    IF Len(buf) < LAS_HEADER_MIN_BYTES THEN [ok |-> FALSE, offset |-> 0]
    ELSE IF buf[LAS_OFFSET_TO_POINT_DATA + 1] = LAS_OFFSET_TO_POINT_DATA
         THEN [ok |-> TRUE, offset |-> f.offset_to_point_data]
         ELSE [ok |-> TRUE, offset |-> 0]

Take(bytes, n) == IF n >= Len(bytes) THEN bytes ELSE SubSeq(bytes, 1, n)

header_buf_Whole(header_bytes, offset) == header_bytes

\* header_bytes.into_iter().take(offset): the header cut at the point data
header_buf(header_bytes, offset) == Take(header_bytes, offset)

Range0(f) ==
    [pc |-> "header", f |-> f, header_bytes |-> <<>>, offset |-> 0,
     content_length |-> 0, header_buf |-> <<>>, tail |-> FALSE,
     ret |-> [ok |-> FALSE, bytes |-> <<>>]]

RgEnv == UNCHANGED <<tvars, rayon, ld, ix, flt, rs, cp, ce>>
RangeFail == [rg EXCEPT !.pc = "done"]

\* the header range 0..HEADER_RANGE_END
RangeHeader ==
    /\ rg.pc = "header"
    /\ \E honoured \in BOOLEAN :
          LET r == download_partial_laz_body(rg.f, 0, HEADER_RANGE_END, honoured)
          IN  rg' = IF r.ok THEN [rg EXCEPT !.pc = "parse", !.header_bytes = r.bytes]
                    ELSE RangeFail
    /\ RgEnv

\* parse_las_header_from_slice, head_content_length, offset >= content_length
RangeParse ==
    /\ rg.pc = "parse"
    /\ \E headOk \in BOOLEAN :
          LET parsed == parse_las_header_from_slice(rg.f, rg.header_bytes)
          IN  rg' = IF ~parsed.ok \/ ~headOk \/ parsed.offset >= rg.f.len
                    THEN RangeFail
                    ELSE [rg EXCEPT !.pc = "header_buf", !.offset = parsed.offset,
                                    !.content_length = rg.f.len]
    /\ RgEnv

\* the header: cut from the first range, or the first range and its tail
RangeHeaderBuf ==
    /\ rg.pc = "header_buf"
    /\ IF rg.offset <= HEADER_RANGE_END + 1
       THEN rg' = [rg EXCEPT !.pc = "point_data",
                             !.header_buf = header_buf(rg.header_bytes, rg.offset)]
       ELSE \E honoured \in BOOLEAN :
               LET rest == download_partial_laz_body(rg.f, HEADER_RANGE_END + 1,
                                                     rg.offset - 1, honoured)
               IN  rg' = IF rest.ok
                         THEN [rg EXCEPT !.pc = "point_data", !.tail = TRUE,
                                         !.header_buf = rg.header_bytes \o rest.bytes]
                         ELSE RangeFail
    /\ RgEnv

\* the point data range offset..content_length-1, appended to the header
RangePointData ==
    /\ rg.pc = "point_data"
    /\ \E honoured \in BOOLEAN :
          LET point_data == download_partial_laz_body(rg.f, rg.offset,
                                                      rg.content_length - 1, honoured)
          IN  rg' = IF point_data.ok
                    THEN [rg EXCEPT !.pc = "done",
                                    !.ret = [ok |-> TRUE,
                                             bytes |-> rg.header_buf \o point_data.bytes]]
                    ELSE RangeFail
    /\ RgEnv

InitRange ==
    /\ rg \in {Range0(f) : f \in RemoteFiles}
    /\ flt = FilterOff /\ rs = RasterOff /\ cp = PathOff /\ ce = EntriesOff
    /\ ix = IndexOff /\ ld = LoadOff /\ rayon = FALSE
    /\ TransferOff

NextRange == RangeHeader \/ RangeParse \/ RangeHeaderBuf \/ RangePointData

SpecRange == InitRange /\ [][NextRange]_vars

\* C23: what download_laz_via_range returns is the remote file, byte for
\* byte: its bytes 0..content_length-1 in order, the first
\* offset_to_point_data of them the header and the rest the point data.
C23_RangeDownloadIsTheFile ==
    (rg.pc = "done" /\ rg.ret.ok) =>
        /\ rg.ret.bytes = FileBytes(rg.f)
        /\ rg.header_buf = Take(FileBytes(rg.f), rg.f.offset_to_point_data)
        /\ rg.f.offset_to_point_data < rg.f.len

\* the header of the file returned ended behind the first range
C23_Witness ==
    /\ rg.pc = "done" /\ rg.ret.ok /\ rg.tail
    /\ rg.f.offset_to_point_data > HEADER_RANGE_END + 1
    /\ Len(rg.ret.bytes) = rg.f.len

C23_WitnessInsideFirstRange ==
    /\ rg.pc = "done" /\ rg.ret.ok /\ ~rg.tail
    /\ rg.f.offset_to_point_data < HEADER_RANGE_END + 1
    /\ rg.f.len > HEADER_RANGE_END + 1

\* ------------------------------------------------------------------------
\* read_copc_entries entry by entry, with the bounding-box filter, and the
\* failure-rate decision of load_single_copc_file
\* ------------------------------------------------------------------------
MaxEntries == 3      \* entries of a hierarchy
MaxEntryPoints == 2  \* points of one entry

\* where a decoded point may lie, and the filter boxes of a load
EntryCoords == {<<0, 1>>, <<1, 1>>, <<1, 2>>}
NoBbox == [some |-> FALSE, v |-> <<0, 0, 0, 0>>]
SomeBbox(b) == [some |-> TRUE, v |-> b]
EntryBboxes == {NoBbox, SomeBbox(<<1, 1, 1, 1>>), SomeBbox(<<0, 1, 1, 1>>)}

\* the k-th point of the i-th entry, lying at xy
EntryPoint(i, k, xy) == [e |-> i, k |-> k, x |-> xy[1], y |-> xy[2]]

\* an entry of the hierarchy: its point_count, whether read_entry_points
\* decodes it, and the coordinates of its points
HierarchyEntry ==
    UNION {[point_count : {n}, ok : BOOLEAN, xy : [1..n -> EntryCoords]]
              : n \in 0..MaxEntryPoints}
            \cup [point_count : {-1}, ok : BOOLEAN, xy : {<<>>}]
Hierarchies == UNION {[1..n -> HierarchyEntry] : n \in 1..MaxEntries}

\* the chunk read_entry_points fills for the i-th entry
Chunk(entries, i) ==
    [k \in 1..entries[i].point_count |-> EntryPoint(i, k, entries[i].xy[k])]

InsideEntryBbox(p, b) == p.x >= b[1] /\ p.x <= b[3] /\ p.y >= b[2] /\ p.y <= b[4]

filter_chunk_Exclusive(chunk, filter_bbox) ==
    IF filter_bbox.some
    THEN LET Strictly(p) == /\ p.x > filter_bbox.v[1] /\ p.x < filter_bbox.v[3]
                            /\ p.y > filter_bbox.v[2] /\ p.y < filter_bbox.v[4]
         IN  SelectSeq(chunk, Strictly)
    ELSE chunk

\* chunk.drain(..).filter(..) when a box was given, chunk.drain(..) otherwise
filter_chunk(chunk, filter_bbox) ==
    IF filter_bbox.some
    THEN LET Keep(p) == InsideEntryBbox(p, filter_bbox.v) IN SelectSeq(chunk, Keep)
    ELSE chunk

Entries0(entries, filter_bbox) ==
    [pc |-> "entries", entries |-> entries, filter_bbox |-> filter_bbox, i |-> 1,
     all_points |-> <<>>,
     result |-> [points |-> <<>>, processed |-> 0, success |-> 0, failed |-> 0],
     ret |-> Err]

CeEnv == UNCHANGED <<tvars, rayon, ld, ix, flt, rs, cp, rg>>

\* one turn of `for entry in entries`
ReadEntryPoints ==
    /\ ce.pc = "entries"
    /\ ce.i <= Len(ce.entries)
    /\ LET entry == ce.entries[ce.i]
           next  == [ce EXCEPT !.i = @ + 1]
       IN  ce' = IF entry.point_count <= 0 THEN next
                 ELSE IF entry.ok
                 THEN [next EXCEPT !.result.processed = @ + 1,
                                   !.result.success = @ + 1,
                                   !.all_points =
                                       @ \o filter_chunk(Chunk(ce.entries, ce.i),
                                                         ce.filter_bbox)]
                 ELSE [next EXCEPT !.result.processed = @ + 1,
                                   !.result.failed = @ + 1]
    /\ CeEnv

\* after the loop: the points are converted one by one, in order
ConvertPoints ==
    /\ ce.pc = "entries"
    /\ ce.i > Len(ce.entries)
    /\ ce' = [ce EXCEPT !.pc = "rate", !.result.points = ce.all_points]
    /\ CeEnv

\* load_single_copc_file: fall back on a high failure rate, else Ok(points)
FailureRateDecision ==
    /\ ce.pc = "rate"
    /\ ce' = IF HighFailureRate(ce.result)
             THEN [ce EXCEPT !.pc = "fallback"]
             ELSE [ce EXCEPT !.pc = "done", !.ret = Ok(ce.result.points)]
    /\ CeEnv

InitEntries ==
    /\ ce \in {Entries0(h, b) : h \in Hierarchies, b \in EntryBboxes}
    /\ flt = FilterOff /\ rs = RasterOff /\ cp = PathOff /\ rg = RangeOff
    /\ ix = IndexOff /\ ld = LoadOff /\ rayon = FALSE
    /\ TransferOff

NextEntries == ReadEntryPoints \/ ConvertPoints \/ FailureRateDecision

SpecEntries == InitEntries /\ [][NextEntries]_vars

\* the entries the loop has passed, those of them that were attempted and
\* those that failed
PassedEntries == 1..(ce.i - 1)
AttemptedSoFar == {i \in PassedEntries : ce.entries[i].point_count > 0}
FailedSoFar == {i \in AttemptedSoFar : ~ce.entries[i].ok}

\* the points of the decoded entries 1..n that lie in the box, entry by entry
RECURSIVE DecodedInBox(_, _, _)
DecodedInBox(entries, filter_bbox, n) ==
    IF n = 0 THEN <<>>
    ELSE DecodedInBox(entries, filter_bbox, n - 1) \o
         (IF entries[n].point_count > 0 /\ entries[n].ok
          THEN [j \in 1..Cardinality({k \in 1..entries[n].point_count :
                          \/ ~filter_bbox.some
                          \/ InsideEntryBbox(Chunk(entries, n)[k], filter_bbox.v)})
                  |-> LET kept == {k \in 1..entries[n].point_count :
                                      \/ ~filter_bbox.some
                                      \/ InsideEntryBbox(Chunk(entries, n)[k], filter_bbox.v)}
                          k == CHOOSE k \in kept : Cardinality({m \in kept : m < k}) = j - 1
                      IN  Chunk(entries, n)[k]]
          ELSE <<>>)

\* C24: only entries with a positive point count are attempted, each
\* attempted entry counts as a success or as a failure, and when at most
\* half of the attempted entries failed the file's result is the points of
\* the decoded entries that lie in the box, in entry order.
C24_FailedEntriesSkippedAndCounted ==
    ce.pc # "off" =>
        /\ ce.result.processed = Cardinality(AttemptedSoFar)
        /\ ce.result.failed = Cardinality(FailedSoFar)
        /\ ce.result.success + ce.result.failed = ce.result.processed
        /\ ce.pc \in {"done", "fallback"} =>
              IF 2 * Cardinality(FailedSoFar) <= Cardinality(AttemptedSoFar)
              THEN /\ ce.pc = "done"
                   /\ ce.ret = Ok(DecodedInBox(ce.entries, ce.filter_bbox, Len(ce.entries)))
              ELSE ce.pc = "fallback"

\* exactly half of the attempted entries failed, a point on the box's edge
\* was kept and a point outside it dropped
C24_Witness ==
    /\ ce.pc = "done" /\ ce.result.processed = 2 /\ ce.result.failed = 1
    /\ ce.filter_bbox = SomeBbox(<<0, 1, 1, 1>>)
    /\ \E i \in DOMAIN ce.entries :
          /\ ce.entries[i].ok /\ ce.entries[i].point_count = 2
          /\ ce.entries[i].xy = <<(<<1, 2>>), (<<0, 1>>)>>
    /\ Len(ce.ret.pts) = 1
    /\ \E i \in DOMAIN ce.entries : ce.entries[i].point_count <= 0

\* ------------------------------------------------------------------------
\* The shape of the quadtree while it is built
\* ------------------------------------------------------------------------
RECURSIVE StoredIn(_), WellFormed(_, _), SplitsKept(_, _)

\* the point indices stored anywhere in the tree below a node
StoredIn(node) ==
    {node.points[k] : k \in DOMAIN node.points}
    \cup (IF node.children.some
          THEN UNION {StoredIn(node.children.c[q]) :
                         q \in {r \in 0..3 : ~node.children.c[r].nil}}
          ELSE {})

\* a node and all nodes below it: the points a node stores lie in its
\* rectangle and are stored once; a node with children stores none; a leaf
\* above the depth limit stores at most NodeCapacity; a child sits one level
\* down on its quadrant of the parent's rectangle
WellFormed(node, points) ==
    /\ \A k \in DOMAIN node.points :
          contains_xy(node, points[node.points[k]].x, points[node.points[k]].y)
    /\ \A j, k \in DOMAIN node.points : j # k => node.points[j] # node.points[k]
    /\ node.depth <= DepthLimit
    /\ IF node.children.some
       THEN /\ node.points = <<>>
            /\ node.depth < DepthLimit
            /\ \A q \in 0..3 :
                  ~node.children.c[q].nil =>
                     /\ node.children.c[q].bounds = child_bounds(node, q)
                     /\ node.children.c[q].depth = node.depth + 1
                     /\ StoredIn(node.children.c[q]) # {}
                     /\ WellFormed(node.children.c[q], points)
            /\ \A q, r \in 0..3 :
                  (q # r /\ ~node.children.c[q].nil /\ ~node.children.c[r].nil)
                     => StoredIn(node.children.c[q]) \cap StoredIn(node.children.c[r]) = {}
       ELSE node.depth < DepthLimit => Len(node.points) <= NodeCapacity

\* a node that had children has them still, on the same rectangle, and so
\* has every node below it: no node goes back to a leaf to split again
SplitsKept(old, new) ==
    /\ new.bounds = old.bounds /\ new.depth = old.depth
    /\ old.children.some =>
          /\ new.children.some
          /\ \A q \in 0..3 :
                ~old.children.c[q].nil =>
                   /\ ~new.children.c[q].nil
                   /\ SplitsKept(old.children.c[q], new.children.c[q])

Building == ix.pc = "inserting"

QuadtreeShape ==
    Building =>
        /\ ix.tree.bounds = QuadtreeRoot(ix.points).bounds
        /\ ix.tree.depth = 0
        /\ StoredIn(ix.tree) = 1..(ix.next - 1)
        /\ \A i \in 1..(ix.next - 1) : contains_xy(ix.tree, ix.points[i].x, ix.points[i].y)
        /\ WellFormed(ix.tree, ix.points)

QuadtreeSplitOnce == (Building /\ Building') => SplitsKept(ix.tree, ix.tree')

\* C25: after any number of insertions of build, the root rectangle is the
\* padded extent of the points and has not changed; every inserted point is
\* stored in the tree, inside the root rectangle and inside the rectangle
\* of the node that stores it; a node with children stores no points; a
\* leaf above the depth limit stores at most the node capacity; and a node
\* that was split stays split, so that no node is split twice.
C25_QuadtreeInvariants == [](QuadtreeShape) /\ [][QuadtreeSplitOnce]_vars

\* all points inserted, the root and a child of it split, and a leaf at
\* the depth limit holding more points than the node capacity
C25_Witness ==
    /\ Building /\ ix.next > Len(ix.points) /\ Len(ix.points) = MaxPoints
    /\ ix.tree.children.some
    /\ \E q \in 0..3 :
          /\ ~ix.tree.children.c[q].nil
          /\ ix.tree.children.c[q].children.some
          /\ \E r \in 0..3 :
                /\ ~ix.tree.children.c[q].children.c[r].nil
                /\ ix.tree.children.c[q].children.c[r].depth = DepthLimit
                /\ Len(ix.tree.children.c[q].children.c[r].points) > NodeCapacity

\* ------------------------------------------------------------------------
\* The strategy the filter selects
\* ------------------------------------------------------------------------
\* the extent of the sampled points, and the two areas the estimate divides
SampledX == SampleExtent(flt.points).dx
SampledY == SampleExtent(flt.points).dy
SampledArea == SampledX * SampledY
QueryArea == (flt.q[3] - flt.q[1]) * (flt.q[4] - flt.q[2])

\* the estimated selectivity is above 50%; it counts as 1 on an empty area
SelectivityAboveHalf == IF SampledArea = 0 THEN TRUE ELSE 2 * QueryArea > SampledArea

\* C26: fewer points than the small threshold are scanned linearly;
\* otherwise fewer points than the large threshold, or an estimated
\* selectivity above 50%, select the grid, with the cell size the largest of
\* the sampled x extent and y extent, each divided by the cell divisor, and
\* the minimum cell size; everything else selects the quadtree.
C26_StrategySelection ==
    flt.pc = "done" =>
        /\ flt.strategy = "linear" <=> Len(flt.points) < SmallThreshold
        /\ flt.strategy = "grid" <=>
              /\ Len(flt.points) >= SmallThreshold
              /\ Len(flt.points) < LargeThreshold \/ SelectivityAboveHalf
        /\ flt.strategy = "quadtree" <=>
              /\ Len(flt.points) >= LargeThreshold
              /\ ~SelectivityAboveHalf
        /\ flt.strategy = "grid" =>
              /\ flt.cell_size >= SampledX \div CellDiv
              /\ flt.cell_size >= SampledY \div CellDiv
              /\ flt.cell_size >= MinCellSize
              /\ flt.cell_size \in {SampledX \div CellDiv, SampledY \div CellDiv, MinCellSize}

\* a slice at the large threshold went to the grid for its selectivity,
\* with a cell size above the minimum
C26_Witness ==
    /\ flt.pc = "done" /\ flt.strategy = "grid"
    /\ Len(flt.points) >= LargeThreshold
    /\ SampledArea > 0 /\ 2 * QueryArea > SampledArea
    /\ flt.cell_size > MinCellSize

C26_WitnessQuadtree ==
    flt.pc = "done" /\ flt.strategy = "quadtree" /\ SampledArea > 0 /\ QueryArea > 0
C26_WitnessEmptyArea ==
    /\ flt.pc = "done" /\ flt.strategy = "grid" /\ SampledArea = 0
    /\ Len(flt.points) >= LargeThreshold /\ QueryArea = 0

\* ------------------------------------------------------------------------
\* The points on the upper x edge and the lower y edge of the raster
\* ------------------------------------------------------------------------
\* C28: every point that passed the bounding-box filter and the allow-list
\* is assigned to a cell of the grid (row < height, col < width) and the
\* surface cell holds at least its z: no such point is dropped.
C28_NoFilteredPointDropped ==
    PointPassDone =>
        \A k \in DOMAIN rs.filtered_points :
            LET point == rs.filtered_points[k]
                col == PointCol(point, rs.bbox, rs.resolution)
                row == PointRow(point, rs.bbox, rs.resolution)
            IN  /\ col < rs.out.width /\ row < rs.out.height
                /\ rs.dsm_pass[row][col] >= point.z

\* ------------------------------------------------------------------------
\* What one failed attempt costs of the retry budget
\* ------------------------------------------------------------------------
\* the call gave up because its retry budget ran out (not for an HTTP error
\* status or a wrong signature, which end it with budget left)
GaveUpOutOfBudget(w) == wk[w].pc = "done" /\ wk[w].dlFailed /\ wk[w].retries = 0

\* C29: in download_with_verification every failed attempt takes exactly
\* one unit of the budget of 3: at the head of the loop attempts made plus
\* budget left are 3, and a call that gives up for lack of budget has made
\* exactly 3 attempts.
C29_OneUnitPerFailedAttempt ==
    \A w \in Workers :
        /\ wk[w].pc = "dl_get" => wk[w].attempts + wk[w].retries = MaxRetries
        /\ GaveUpOutOfBudget(w) => wk[w].attempts = MaxRetries

\* ------------------------------------------------------------------------
\* The cache entry after a load the decoder could not open
\* ------------------------------------------------------------------------
\* the load failed on bytes that start with LASF and that the decoder
\* cannot open
FailedUndecodable(w) ==
    /\ wk[w].pc = "done" /\ ~wk[w].result.ok
    /\ wk[w].handed.any
    /\ StartsWithLASF(wk[w].handed.b)
    /\ ~ReaderOpens(wk[w].handed.b, truncOpens)

\* C30: after a load that failed because the decoder could not open bytes
\* starting with LASF, the URL has no cache entry, with the flat and with
\* the hierarchical loader.
C30_UndecodableLeavesNoCacheEntry ==
    \A w \in Active : FailedUndecodable(w) => ~file.exists
====
